---- MODULE Spec2Model ----
(***************************************************************************)
(* A model of the AMQP client core of lapin:                               *)
(*   - the outbound frame queue (src/src/frames.rs): four lanes, the map   *)
(*     of expected replies, pop's lane priority and publish migration;     *)
(*   - the channel request/reply state machine (src/async/src/api.rs);     *)
(*   - the consumer and its stream (src/src/consumer.rs).                  *)
(* Option<T> values are modelled as sequences: <<>> is None, <<x>> is      *)
(* Some(x).  VecDeque values are sequences, front first.                   *)
(***************************************************************************)
EXTENDS Integers, Sequences, FiniteSets, TLC

\* ------------------------------------------------------------------ bounds
\* number of calls that enqueue (push, push_frames, retry) in a run
MaxEnqueue == 3
\* largest number of body frames in one basic.publish batch
MaxBody == 1
\* number of method frames the connection sends in a run
MaxFrames == 3
\* number of deliveries the channel starts for the consumer in a run
MaxDeliveries == 2
\* largest number of payloads of one delivery
MaxContent == 1
\* number of calls of cancel, set_error and drop_prefetched_messages in a run
MaxCalls == 2

\* channel ids used by the callers of the frame queue
FChannels == {1, 2}
Errors == {"E1", "E2"}

VARIABLES
  inner,        \* Inner: the four lanes and expected_replies (frames.rs 76-84)
  held,         \* (frame, resolver) pairs returned by pop and owned by the caller
  sworn,        \* resolver id -> the results it was sworn with, in order
  cancelled,    \* channel -> log of <<reply, error>>: the cancel calls, in order
  emitted,      \* every pair returned by pop, in order
  retried,      \* every pair handed to retry, in order
  registered,   \* channel -> the expected replies push registered for it, in order
  returned,     \* channel -> the replies next_expected_reply returned for it, in order
  nPush,        \* number of push calls so far
  pushed,       \* the vectors push_frames was called with, in order
  nRes,         \* number of resolvers created so far
  conn,         \* Connection: channels, finished_reqs, request ids, prefetch (api.rs)
  consumer,     \* ConsumerInner, with the tasks spawned on its executor (consumer.rs 195-203)
  awoken_count, \* waker -> number of times it was woken (consumer.rs 364-370)
  polled,       \* what the last poll_next of the stream returned, if any
  received,     \* the items the polls of the stream returned Ready with, in order
  nDeliveries,  \* number of start_new_delivery calls so far
  nCalls,       \* number of cancel, set_error and drop_prefetched_messages calls so far
  subscriber    \* the waker of the last poll_next, and the wakers whose poll returned
                \* Pending and that were not woken since (consumer.rs 316-346)

fvars == <<inner, held, sworn, cancelled, emitted, retried, registered, returned,
           nPush, pushed, nRes>>
cvars == <<consumer, awoken_count, polled, received, nDeliveries, nCalls, subscriber>>
vars == <<fvars, conn, cvars>>

\* ------------------------------------------------------------------ values
None == <<>>
Some(x) == <<x>>

\* AMQPFrame: kind, and, to tell frames apart, the batch it was pushed in
\* (0 for a frame pushed with push) and its position there.
Frame(kind, batch, idx) == [kind |-> kind, batch |-> batch, idx |-> idx]
Pair(frame, resolver) == [frame |-> frame, resolver |-> resolver]

is_header(frame) == frame.kind = "Header"
is_body(frame) == frame.kind = "Body"

\* The frames basic_publish hands to push_frames: method, header, k bodies.
PublishFrames(b, k) ==
  [i \in 1..(k + 2) |->
     Frame(IF i = 1 THEN "Method" ELSE IF i = 2 THEN "Header" ELSE "Body", b, i)]

\* The vectors push_frames is called with: the empty one and every publish.
BatchShapes(b) == {<<>>} \cup {PublishFrames(b, k) : k \in 0..MaxBody}

\* HashMap<u16, VecDeque<ExpectedReply>>: None where the map has no entry for
\* the key, Some(deque) where it has one (an entry may hold an empty deque).
EmptyMap == [c \in FChannels |-> None]
MapPut(m, k, v) == [m EXCEPT ![k] = Some(v)]
MapRemove(m, k) == [m EXCEPT ![k] = None]

InnerDefault ==
  [publish_frames |-> <<>>, retry_frames |-> <<>>, frames |-> <<>>,
   low_prio_frames |-> <<>>, expected_replies |-> EmptyMap]

\* ------------------------------------------------------------------ Inner
\* Inner::push: the frame goes to the back of the normal lane with its
\* resolver; an expected reply goes to the back of its channel's deque
\* (entry(channel_id).or_default().push_back).
Inner_push(s, channel_id, frame, resolver, expected_reply) ==
  LET s1 == [s EXCEPT !.frames = Append(@, Pair(frame, Some(resolver)))]
  IN IF expected_reply # None
       THEN LET old == s1.expected_replies[channel_id]
                q == IF old = None THEN <<>> ELSE old[1]
            IN [s1 EXCEPT !.expected_replies =
                  MapPut(@, channel_id, Append(q, expected_reply[1]))]
       ELSE s1

\* Mutation of PushFramesPairs: the resolver travels with the first frame.
PushFramesPairs_OnFirst(fs, resolver) ==
  [i \in 1..Len(fs) |-> Pair(fs[i], IF i = 1 THEN Some(resolver) ELSE None)]

\* The pairs push_frames appends to the low-prio lane: every frame but the
\* last without resolver, the last with the batch's resolver.
PushFramesPairs(fs, resolver) ==
  [i \in 1..Len(fs) |-> Pair(fs[i], IF i = Len(fs) THEN Some(resolver) ELSE None)]

\* Inner::push_frames: the new lanes, and what the resolver was sworn with
\* before returning (Ok for an empty vector, nothing otherwise).
Inner_push_frames(s, fs, resolver) ==
  [inner |-> [s EXCEPT !.low_prio_frames = @ \o PushFramesPairs(fs, resolver)],
   swear |-> IF fs = <<>> THEN <<"Ok">> ELSE <<>>]

\* The while loop of pop: body frames move from the front of the low-prio
\* lane to the back of publish_frames until a frame that is no body is met.
RECURSIVE DrainBodies(_, _)
DrainBodies(publish, low) ==
  IF low # <<>> /\ is_body(Head(low).frame)
    THEN DrainBodies(Append(publish, Head(low)), Tail(low))
    ELSE [publish |-> publish, low |-> low]

\* Mutation of PopPriority: the normal lane is served before publish_frames.
PopPriority_NormalFirst(s) ==
  IF s.retry_frames # <<>>
    THEN [inner |-> [s EXCEPT !.retry_frames = Tail(@)],
          ret |-> Some(Head(s.retry_frames))]
  ELSE IF s.frames # <<>>
    THEN [inner |-> [s EXCEPT !.frames = Tail(@)],
          ret |-> Some(Head(s.frames))]
  ELSE IF s.publish_frames # <<>>
    THEN [inner |-> [s EXCEPT !.publish_frames = Tail(@)],
          ret |-> Some(Head(s.publish_frames))]
  ELSE [inner |-> s, ret |-> None]

\* pop, lines 150-157: the front of the first non-empty lane among retry,
\* publish_frames and frames, in this order.
PopPriority(s) ==
  IF s.retry_frames # <<>>
    THEN [inner |-> [s EXCEPT !.retry_frames = Tail(@)],
          ret |-> Some(Head(s.retry_frames))]
  ELSE IF s.publish_frames # <<>>
    THEN [inner |-> [s EXCEPT !.publish_frames = Tail(@)],
          ret |-> Some(Head(s.publish_frames))]
  ELSE IF s.frames # <<>>
    THEN [inner |-> [s EXCEPT !.frames = Tail(@)],
          ret |-> Some(Head(s.frames))]
  ELSE [inner |-> s, ret |-> None]

\* Mutation of PopLowPrio: the header taken from the low-prio lane is not
\* put on publish_frames.
PopLowPrio_HeaderLost(s) ==
  IF s.low_prio_frames # <<>>
    THEN LET frame == Head(s.low_prio_frames)
             rest == Tail(s.low_prio_frames)
         IN IF rest # <<>> /\ is_header(Head(rest).frame)
              THEN LET d == DrainBodies(s.publish_frames, Tail(rest))
                   IN [inner |-> [s EXCEPT !.publish_frames = d.publish,
                                           !.low_prio_frames = d.low],
                       ret |-> Some(frame)]
              ELSE [inner |-> [s EXCEPT !.low_prio_frames = rest],
                    ret |-> Some(frame)]
    ELSE [inner |-> s, ret |-> None]

\* pop, lines 159-188: the front of the low-prio lane; when a header follows
\* it, the header and the body frames behind it move to publish_frames.
PopLowPrio(s) ==
  IF s.low_prio_frames # <<>>
    THEN LET frame == Head(s.low_prio_frames)
             rest == Tail(s.low_prio_frames)
         IN IF rest # <<>> /\ is_header(Head(rest).frame)
              THEN LET d == DrainBodies(Append(s.publish_frames, Head(rest)),
                                        Tail(rest))
                   IN [inner |-> [s EXCEPT !.publish_frames = d.publish,
                                           !.low_prio_frames = d.low],
                       ret |-> Some(frame)]
              ELSE [inner |-> [s EXCEPT !.low_prio_frames = rest],
                    ret |-> Some(frame)]
    ELSE [inner |-> s, ret |-> None]

\* Mutation of Inner_pop: the low-prio lane is served whatever flow says.
Inner_pop_IgnoringFlow(s, flow) ==
  LET r == PopPriority(s)
  IN IF r.ret # None THEN r ELSE PopLowPrio(s)

\* Inner::pop(flow): the new lanes and the returned Option<(frame, resolver)>.
Inner_pop(s, flow) ==
  LET r == PopPriority(s)
  IN IF r.ret # None THEN r
     ELSE IF flow THEN PopLowPrio(s)
     ELSE [inner |-> s, ret |-> None]

\* Mutation of Inner_has_pending: pending expected replies count as work.
Inner_has_pending_WithReplies(s) ==
  ~(s.retry_frames = <<>> /\ s.publish_frames = <<>>
    /\ s.frames = <<>> /\ s.low_prio_frames = <<>>
    /\ \A c \in FChannels :
         s.expected_replies[c] = None \/ s.expected_replies[c][1] = <<>>)

\* Inner::has_pending
Inner_has_pending(s) ==
  ~(s.retry_frames = <<>> /\ s.publish_frames = <<>>
    /\ s.frames = <<>> /\ s.low_prio_frames = <<>>)

\* Inner::drop_pending_frames: the resolvers of a lane, front first; the lane
\* itself is taken (left empty).
LaneResolvers(lane) ==
  LET F[i \in 0..Len(lane)] ==
        IF i = 0 THEN <<>>
        ELSE IF lane[i].resolver # None THEN Append(F[i - 1], lane[i].resolver[1])
        ELSE F[i - 1]
  IN F[Len(lane)]

\* Mutation of DropLanes: publish_frames is forgotten.
DropLanes_WithoutPublish(s) ==
  LaneResolvers(s.retry_frames) \o LaneResolvers(s.frames)
    \o LaneResolvers(s.low_prio_frames)

\* The lanes drop_pending empties, in the order it does.
DropLanes(s) ==
  LaneResolvers(s.retry_frames) \o LaneResolvers(s.publish_frames)
    \o LaneResolvers(s.frames) \o LaneResolvers(s.low_prio_frames)

\* Mutation of Inner_drop_pending: the lanes are walked but not taken.
Inner_drop_pending_NotTaken(s) ==
  [inner |-> [s EXCEPT !.expected_replies = EmptyMap],
   failed |-> DropLanes(s),
   cancels |-> [c \in FChannels |->
                  IF s.expected_replies[c] = None THEN <<>>
                  ELSE s.expected_replies[c][1]]]

\* Inner::drop_pending: the emptied Inner, the resolvers failed, in order, and
\* per channel the expected replies cancelled, front first (the map is
\* drained in no particular order across channels).
Inner_drop_pending(s) ==
  [inner |-> InnerDefault,
   failed |-> DropLanes(s),
   cancels |-> [c \in FChannels |->
                  IF s.expected_replies[c] = None THEN <<>>
                  ELSE s.expected_replies[c][1]]]

\* Mutation of Inner_clear_expected_replies: the replies are cancelled and the
\* channel's entry is kept.
Inner_clear_expected_replies_Kept(s, channel_id) ==
  [inner |-> s,
   cancels |-> IF s.expected_replies[channel_id] = None THEN <<>>
               ELSE s.expected_replies[channel_id][1]]

\* Inner::clear_expected_replies: remove the channel's entry and cancel what
\* it held.
Inner_clear_expected_replies(s, channel_id) ==
  [inner |-> [s EXCEPT !.expected_replies = MapRemove(@, channel_id)],
   cancels |-> IF s.expected_replies[channel_id] = None THEN <<>>
               ELSE s.expected_replies[channel_id][1]]

\* Mutation of Frames_next_expected_reply: pop_back instead of pop_front.
Frames_next_expected_reply_Back(s, channel_id) ==
  LET e == s.expected_replies[channel_id]
  IN IF e = None \/ e[1] = <<>>
       THEN [inner |-> s, ret |-> None]
       ELSE [inner |-> [s EXCEPT !.expected_replies =
                          MapPut(@, channel_id, SubSeq(e[1], 1, Len(e[1]) - 1))],
             ret |-> Some(e[1][Len(e[1])])]

\* Frames::next_expected_reply: get_mut(channel).and_then(pop_front).
Frames_next_expected_reply(s, channel_id) ==
  LET e == s.expected_replies[channel_id]
  IN IF e = None \/ e[1] = <<>>
       THEN [inner |-> s, ret |-> None]
       ELSE [inner |-> [s EXCEPT !.expected_replies =
                          MapPut(@, channel_id, Tail(e[1]))],
             ret |-> Some(Head(e[1]))]

\* Frames::retry: the pair goes to the back of the retry lane.
Frames_retry(s, pair) == [s EXCEPT !.retry_frames = Append(@, pair)]

\* ================================================================== api.rs
\* The connection's channel table and the request/reply handlers of
\* src/async/src/api.rs.  Every handler is an operator from the connection
\* (and the call's arguments) to the connection afterwards and the value
\* returned: [conn |-> ..., ret |-> ...].
Ok(v) == <<"Ok", v>>
Err(e) == <<"Err", e>>
Unit == "()"
IsOk(ret) == ret[1] = "Ok"
R(c, ret) == [conn |-> c, ret |-> ret]

\* channel ids, queue names, binding keys and consumer tags of the callers
AChannels == {1, 2}
QueueNames == {"q1", "q2"}
Exchanges == {"x"}
RoutingKeys == {"k"}
ConsumerTags == {"t1", "t2"}
BindingKeys == Exchanges \X RoutingKeys

\* ChannelState
Initial == <<"Initial">>
Connected == <<"Connected">>
Closed == <<"Closed">>
StateError == <<"Error">>
WillReceiveContent(queue, tag) == <<"WillReceiveContent", queue, tag>>

\* Answer: the variant, its request id and the arguments it carries.
Answer(kind, request_id, args) ==
  [kind |-> kind, request_id |-> request_id, args |-> args]
AwaitingChannelOpenOk(id) == Answer("AwaitingChannelOpenOk", id, <<>>)
AwaitingChannelFlowOk(id) == Answer("AwaitingChannelFlowOk", id, <<>>)
AwaitingChannelCloseOk(id) == Answer("AwaitingChannelCloseOk", id, <<>>)
AwaitingQueueDeclareOk(id) == Answer("AwaitingQueueDeclareOk", id, <<>>)
AwaitingQueueBindOk(id, exchange, routing_key) ==
  Answer("AwaitingQueueBindOk", id, <<exchange, routing_key>>)
AwaitingQueuePurgeOk(id, queue) == Answer("AwaitingQueuePurgeOk", id, <<queue>>)
AwaitingQueueDeleteOk(id, queue) == Answer("AwaitingQueueDeleteOk", id, <<queue>>)
AwaitingQueueUnbindOk(id, exchange, routing_key) ==
  Answer("AwaitingQueueUnbindOk", id, <<exchange, routing_key>>)
AwaitingBasicQosOk(id, prefetch_size, prefetch_count, global) ==
  Answer("AwaitingBasicQosOk", id, <<prefetch_size, prefetch_count, global>>)
AwaitingBasicConsumeOk(id, queue, tag) ==
  Answer("AwaitingBasicConsumeOk", id, <<queue, tag>>)
AwaitingBasicCancelOk(id) == Answer("AwaitingBasicCancelOk", id, <<>>)
AwaitingBasicGetAnswer(id) == Answer("AwaitingBasicGetAnswer", id, <<>>)
AwaitingBasicRecoverOk(id) == Answer("AwaitingBasicRecoverOk", id, <<>>)

\* A method frame handed to send_method_frame.
Method(channel_id, name, args) ==
  [channel_id |-> channel_id, method |-> name, args |-> args]

\* Queue, Binding, Consumer and Channel as their constructors leave them.  The
\* option flags a queue or a consumer only stores are left out.
Queue_new(name) ==
  [name |-> name, created |-> FALSE, message_count |-> 0, consumer_count |-> 0,
   bindings |-> [k \in BindingKeys |-> None],
   consumers |-> [t \in ConsumerTags |-> None]]
Binding_new(exchange, routing_key) ==
  [exchange |-> exchange, routing_key |-> routing_key, active |-> FALSE]
Consumer_new(tag) == [tag |-> tag, current_message |-> None, messages |-> <<>>]
Channel_new(id) ==
  [id |-> id, state |-> Initial, send_flow |-> TRUE, receive_flow |-> TRUE,
   awaiting |-> <<>>, queues |-> [q \in QueueNames |-> None],
   prefetch_size |-> 0, prefetch_count |-> 0]
Connection_new ==
  [channels |-> [c \in AChannels |-> None], finished_reqs |-> {},
   request_id |-> 0, prefetch_size |-> 0, prefetch_count |-> 0,
   frame_queue |-> <<>>]

\* ------------------------------------------------- helpers of the connection
contains_key(cn, c) == cn.channels[c] # None
Chan(cn, c) == cn.channels[c][1]
\* self.channels.get_mut(&id).map(|c| ...): ch is the channel afterwards
WithChan(cn, c, ch) ==
  IF contains_key(cn, c) THEN [cn EXCEPT !.channels[c] = Some(ch)] ELSE cn

check_state(cn, c, state) ==
  IF contains_key(cn, c) THEN Some(Chan(cn, c).state = state) ELSE None
is_connected(cn, c) == contains_key(cn, c) /\ Chan(cn, c).state = Connected
set_channel_state(cn, c, state) ==
  IF contains_key(cn, c) THEN WithChan(cn, c, [Chan(cn, c) EXCEPT !.state = state])
  ELSE cn
\* get_next_answer: the head of the channel's awaiting leaves it and is returned.
get_next_answer(cn, c) ==
  IF contains_key(cn, c) /\ Chan(cn, c).awaiting # <<>>
    THEN R(WithChan(cn, c, [Chan(cn, c) EXCEPT !.awaiting = Tail(@)]),
           Some(Head(Chan(cn, c).awaiting)))
    ELSE R(cn, None)
push_back_answer(cn, c, answer) ==
  IF contains_key(cn, c)
    THEN WithChan(cn, c, [Chan(cn, c) EXCEPT !.awaiting = Append(@, answer)])
    ELSE cn
next_request_id(cn) ==
  R([cn EXCEPT !.request_id = @ + 1], cn.request_id)
\* send_method_frame: the frame joins the connection's outbound queue, or the
\* send fails (sent = FALSE) and nothing changes.
send_method_frame(cn, c, name, args, sent) ==
  IF sent
    THEN R([cn EXCEPT !.frame_queue = Append(@, Method(c, name, args))], Ok(Unit))
    ELSE R(cn, Err("SendError"))
\* create_channel: a channel in its initial state under the lowest free id.
create_channel(cn) ==
  LET free == {c \in AChannels : ~contains_key(cn, c)} IN
  IF free = {} THEN R(cn, None)
  ELSE LET id == CHOOSE c \in free : \A d \in free : c <= d
       IN R([cn EXCEPT !.channels[id] = Some(Channel_new(id))], Some(id))

\* The closure the request operations map over a sent frame: a fresh request
\* id, the Answer at the back of awaiting, the id returned.
\*   .map(|_| { let request_id = self.next_request_id();
\*              self.push_back_answer(id, answer(request_id)); request_id })
Awaited(s, c, answer(_)) ==
  IF ~IsOk(s.ret) THEN s
  ELSE LET n == next_request_id(s.conn)
       IN R(push_back_answer(n.conn, c, answer(n.ret)), Ok(n.ret))

channel_open_AnyState(cn, c, sent) ==
  IF ~contains_key(cn, c) THEN R(cn, Err("InvalidChannel"))
  ELSE Awaited(send_method_frame(cn, c, "channel.open", <<>>, sent), c,
               AwaitingChannelOpenOk)

\* ------------------------------------------------------------ channel class
channel_open(cn, c, sent) ==
  IF ~contains_key(cn, c) THEN R(cn, Err("InvalidChannel"))
  ELSE IF check_state(cn, c, Initial) # Some(TRUE)
    THEN R(set_channel_state(cn, c, StateError), Err("InvalidState"))
  ELSE Awaited(send_method_frame(cn, c, "channel.open", <<>>, sent), c,
               AwaitingChannelOpenOk)

\* After the matched Answer the handler sets Connected and then calls
\* get_next_answer once more (api.rs 193), dropping what it returns.
receive_channel_open_ok(cn, c) ==
  IF ~contains_key(cn, c) THEN R(cn, Err("InvalidChannel"))
  ELSE IF check_state(cn, c, Initial) # Some(TRUE)
    THEN R(set_channel_state(cn, c, StateError), Err("InvalidState"))
  ELSE LET g == get_next_answer(cn, c) IN
    IF g.ret # None /\ g.ret[1].kind = "AwaitingChannelOpenOk"
      THEN LET f == [g.conn EXCEPT !.finished_reqs = @ \cup {g.ret[1].request_id}]
           IN R(get_next_answer(set_channel_state(f, c, Connected), c).conn, Ok(Unit))
      ELSE R(set_channel_state(g.conn, c, StateError), Err("UnexpectedAnswer"))

channel_flow(cn, c, active, sent) ==
  IF ~contains_key(cn, c) THEN R(cn, Err("InvalidChannel"))
  ELSE IF ~is_connected(cn, c) THEN R(cn, Err("InvalidState"))
  ELSE Awaited(send_method_frame(cn, c, "channel.flow", <<active>>, sent), c,
               AwaitingChannelFlowOk)

channel_flow_ok(cn, c, active, sent) ==
  IF ~contains_key(cn, c) THEN R(cn, Err("InvalidChannel"))
  ELSE IF ~is_connected(cn, c) THEN R(cn, Err("InvalidState"))
  ELSE send_method_frame(cn, c, "channel.flow-ok", <<active>>, sent)

receive_channel_flow_Ignored(cn, c, active, sent) ==
  IF ~contains_key(cn, c) THEN R(cn, Err("InvalidChannel"))
  ELSE IF ~is_connected(cn, c) THEN R(cn, Err("InvalidState"))
  ELSE channel_flow_ok(cn, c, active, sent)

receive_channel_flow(cn, c, active, sent) ==
  IF ~contains_key(cn, c) THEN R(cn, Err("InvalidChannel"))
  ELSE IF ~is_connected(cn, c) THEN R(cn, Err("InvalidState"))
  ELSE channel_flow_ok(WithChan(cn, c, [Chan(cn, c) EXCEPT !.send_flow = active]),
                       c, active, sent)

\* In the matching arm the handler calls get_next_answer a second time
\* (api.rs 266), dropping what it returns.
receive_channel_flow_ok(cn, c, active) ==
  IF ~contains_key(cn, c) THEN R(cn, Err("InvalidChannel"))
  ELSE IF ~is_connected(cn, c) THEN R(cn, Err("InvalidState"))
  ELSE LET g == get_next_answer(cn, c) IN
    IF g.ret # None /\ g.ret[1].kind = "AwaitingChannelFlowOk"
      THEN LET f == [g.conn EXCEPT !.finished_reqs = @ \cup {g.ret[1].request_id}]
               h == WithChan(f, c, [Chan(f, c) EXCEPT !.receive_flow = active])
           IN R(get_next_answer(h, c).conn, Ok(Unit))
      ELSE R(set_channel_state(g.conn, c, StateError), Err("UnexpectedAnswer"))

channel_close_AnyState(cn, c, sent) ==
  IF ~contains_key(cn, c) THEN R(cn, Err("InvalidChannel"))
  ELSE Awaited(send_method_frame(cn, c, "channel.close", <<>>, sent), c,
               AwaitingChannelCloseOk)

channel_close(cn, c, sent) ==
  IF ~contains_key(cn, c) THEN R(cn, Err("InvalidChannel"))
  ELSE IF ~is_connected(cn, c) THEN R(cn, Err("InvalidState"))
  ELSE Awaited(send_method_frame(cn, c, "channel.close", <<>>, sent), c,
               AwaitingChannelCloseOk)

channel_close_ok(cn, c, sent) ==
  IF ~contains_key(cn, c) THEN R(cn, Err("InvalidChannel"))
  ELSE IF ~is_connected(cn, c) THEN R(cn, Err("InvalidState"))
  ELSE send_method_frame(cn, c, "channel.close-ok", <<>>, sent)

receive_channel_close(cn, c, sent) ==
  IF ~contains_key(cn, c) THEN R(cn, Err("InvalidChannel"))
  ELSE IF ~is_connected(cn, c) THEN R(cn, Err("InvalidState"))
  ELSE channel_close_ok(set_channel_state(get_next_answer(cn, c).conn, c, Closed),
                        c, sent)

\* receive_channel_close_ok that closes the channel without recording the
\* request as finished.
receive_channel_close_ok_Unrecorded(cn, c) ==
  IF ~contains_key(cn, c) THEN R(cn, Err("InvalidChannel"))
  ELSE IF ~is_connected(cn, c) THEN R(cn, Err("InvalidState"))
  ELSE LET g == get_next_answer(cn, c) IN
    IF g.ret # None /\ g.ret[1].kind = "AwaitingChannelCloseOk"
      THEN R(set_channel_state(g.conn, c, Closed), Ok(Unit))
      ELSE R(set_channel_state(g.conn, c, StateError), Err("UnexpectedAnswer"))

receive_channel_close_ok(cn, c) ==
  IF ~contains_key(cn, c) THEN R(cn, Err("InvalidChannel"))
  ELSE IF ~is_connected(cn, c) THEN R(cn, Err("InvalidState"))
  ELSE LET g == get_next_answer(cn, c) IN
    IF g.ret # None /\ g.ret[1].kind = "AwaitingChannelCloseOk"
      THEN LET f == [g.conn EXCEPT !.finished_reqs = @ \cup {g.ret[1].request_id}]
           IN R(set_channel_state(f, c, Closed), Ok(Unit))
      ELSE R(set_channel_state(g.conn, c, StateError), Err("UnexpectedAnswer"))

\* -------------------------------------------------------------- queue class
\* queue_declare without the test of the channel map.
queue_declare_Unchecked(cn, c, queue, sent) ==
  IF ~is_connected(cn, c) THEN R(cn, Err("InvalidState"))
  ELSE LET s == send_method_frame(cn, c, "queue.declare", <<queue>>, sent) IN
    IF ~IsOk(s.ret) THEN s
    ELSE LET n == next_request_id(s.conn)
             ch == Chan(n.conn, c)
         IN R(WithChan(n.conn, c,
                [ch EXCEPT !.queues[queue] = Some(Queue_new(queue)),
                           !.awaiting = Append(@, AwaitingQueueDeclareOk(n.ret))]),
              Ok(n.ret))

\* queue_declare that records the queue before the frame is sent.
queue_declare_Eager(cn, c, queue, sent) ==
  IF ~contains_key(cn, c) THEN R(cn, Err("InvalidChannel"))
  ELSE IF ~is_connected(cn, c) THEN R(cn, Err("InvalidState"))
  ELSE LET e == WithChan(cn, c, [Chan(cn, c) EXCEPT
                                   !.queues[queue] = Some(Queue_new(queue))])
           s == send_method_frame(e, c, "queue.declare", <<queue>>, sent) IN
    IF ~IsOk(s.ret) THEN s
    ELSE LET n == next_request_id(s.conn)
         IN R(push_back_answer(n.conn, c, AwaitingQueueDeclareOk(n.ret)), Ok(n.ret))

queue_declare(cn, c, queue, sent) ==
  IF ~contains_key(cn, c) THEN R(cn, Err("InvalidChannel"))
  ELSE IF ~is_connected(cn, c) THEN R(cn, Err("InvalidState"))
  ELSE LET s == send_method_frame(cn, c, "queue.declare", <<queue>>, sent) IN
    IF ~IsOk(s.ret) THEN s
    ELSE LET n == next_request_id(s.conn)
             ch == Chan(n.conn, c)
         IN R(WithChan(n.conn, c,
                [ch EXCEPT !.queues[queue] = Some(Queue_new(queue)),
                           !.awaiting = Append(@, AwaitingQueueDeclareOk(n.ret))]),
              Ok(n.ret))

\* receive_queue_declare_ok that records the counts and leaves created as it
\* was.
receive_queue_declare_ok_NotCreated(cn, c, queue, message_count, consumer_count) ==
  IF ~contains_key(cn, c) THEN R(cn, Err("InvalidChannel"))
  ELSE IF ~is_connected(cn, c) THEN R(cn, Err("InvalidState"))
  ELSE LET g == get_next_answer(cn, c) IN
    IF g.ret # None /\ g.ret[1].kind = "AwaitingQueueDeclareOk"
      THEN LET f == [g.conn EXCEPT !.finished_reqs = @ \cup {g.ret[1].request_id}]
               ch == Chan(f, c)
           IN R(IF ch.queues[queue] = None THEN f
                ELSE WithChan(f, c,
                       [ch EXCEPT !.queues[queue] =
                          Some([@[1] EXCEPT !.message_count = message_count,
                                            !.consumer_count = consumer_count])]),
                Ok(Unit))
      ELSE R(set_channel_state(g.conn, c, StateError), Err("UnexpectedAnswer"))

receive_queue_declare_ok(cn, c, queue, message_count, consumer_count) ==
  IF ~contains_key(cn, c) THEN R(cn, Err("InvalidChannel"))
  ELSE IF ~is_connected(cn, c) THEN R(cn, Err("InvalidState"))
  ELSE LET g == get_next_answer(cn, c) IN
    IF g.ret # None /\ g.ret[1].kind = "AwaitingQueueDeclareOk"
      THEN LET f == [g.conn EXCEPT !.finished_reqs = @ \cup {g.ret[1].request_id}]
               ch == Chan(f, c)
           IN R(IF ch.queues[queue] = None THEN f
                ELSE WithChan(f, c,
                       [ch EXCEPT !.queues[queue] =
                          Some([@[1] EXCEPT !.message_count = message_count,
                                            !.consumer_count = consumer_count,
                                            !.created = TRUE])]),
                Ok(Unit))
      ELSE R(set_channel_state(g.conn, c, StateError), Err("UnexpectedAnswer"))

queue_bind(cn, c, queue, exchange, routing_key, sent) ==
  IF ~contains_key(cn, c) THEN R(cn, Err("InvalidChannel"))
  ELSE IF ~is_connected(cn, c) THEN R(cn, Err("InvalidState"))
  ELSE LET s == send_method_frame(cn, c, "queue.bind",
                                  <<queue, exchange, routing_key>>, sent) IN
    IF ~IsOk(s.ret) THEN s
    ELSE LET n == next_request_id(s.conn)
             ch == [Chan(n.conn, c) EXCEPT !.awaiting =
                      Append(@, AwaitingQueueBindOk(n.ret, exchange, routing_key))]
             key == <<exchange, routing_key>>
         IN R(WithChan(n.conn, c,
                IF ch.queues[queue] = None THEN ch
                ELSE [ch EXCEPT !.queues[queue] =
                        Some([@[1] EXCEPT !.bindings[key] =
                                Some(Binding_new(exchange, routing_key))])]),
              Ok(n.ret))

\* The matching arm builds c.queues.iter_mut().map(..) and drops it: the
\* iterator adaptor is never consumed, so no binding is touched.
receive_queue_bind_ok(cn, c) ==
  IF ~contains_key(cn, c) THEN R(cn, Err("InvalidChannel"))
  ELSE IF ~is_connected(cn, c) THEN R(cn, Err("InvalidState"))
  ELSE LET g == get_next_answer(cn, c) IN
    IF g.ret # None /\ g.ret[1].kind = "AwaitingQueueBindOk"
      THEN R([g.conn EXCEPT !.finished_reqs = @ \cup {g.ret[1].request_id}], Ok(Unit))
      ELSE R(set_channel_state(g.conn, c, StateError), Err("UnexpectedAnswer"))

queue_purge(cn, c, queue, sent) ==
  IF ~contains_key(cn, c) THEN R(cn, Err("InvalidChannel"))
  ELSE IF ~is_connected(cn, c) THEN R(cn, Err("InvalidState"))
  ELSE Awaited(send_method_frame(cn, c, "queue.purge", <<queue>>, sent), c,
               LAMBDA id : AwaitingQueuePurgeOk(id, queue))

receive_queue_purge_ok(cn, c) ==
  IF ~contains_key(cn, c) THEN R(cn, Err("InvalidChannel"))
  ELSE IF ~is_connected(cn, c) THEN R(cn, Err("InvalidState"))
  ELSE LET g == get_next_answer(cn, c) IN
    IF g.ret # None /\ g.ret[1].kind = "AwaitingQueuePurgeOk"
      THEN R([g.conn EXCEPT !.finished_reqs = @ \cup {g.ret[1].request_id}], Ok(Unit))
      ELSE R(set_channel_state(g.conn, c, StateError), Err("UnexpectedAnswer"))

queue_delete(cn, c, queue, sent) ==
  IF ~contains_key(cn, c) THEN R(cn, Err("InvalidChannel"))
  ELSE IF ~is_connected(cn, c) THEN R(cn, Err("InvalidState"))
  ELSE Awaited(send_method_frame(cn, c, "queue.delete", <<queue>>, sent), c,
               LAMBDA id : AwaitingQueueDeleteOk(id, queue))

receive_queue_delete_ok(cn, c) ==
  IF ~contains_key(cn, c) THEN R(cn, Err("InvalidChannel"))
  ELSE IF ~is_connected(cn, c) THEN R(cn, Err("InvalidState"))
  ELSE LET g == get_next_answer(cn, c) IN
    IF g.ret # None /\ g.ret[1].kind = "AwaitingQueueDeleteOk"
      THEN LET f == [g.conn EXCEPT !.finished_reqs = @ \cup {g.ret[1].request_id}]
               key == g.ret[1].args[1]
           IN R(WithChan(f, c, [Chan(f, c) EXCEPT !.queues[key] = None]), Ok(Unit))
      ELSE R(set_channel_state(g.conn, c, StateError), Err("UnexpectedAnswer"))

queue_unbind(cn, c, queue, exchange, routing_key, sent) ==
  IF ~contains_key(cn, c) THEN R(cn, Err("InvalidChannel"))
  ELSE IF ~is_connected(cn, c) THEN R(cn, Err("InvalidState"))
  ELSE Awaited(send_method_frame(cn, c, "queue.unbind",
                                 <<queue, exchange, routing_key>>, sent), c,
               LAMBDA id : AwaitingQueueUnbindOk(id, exchange, routing_key))

\* As in receive_queue_bind_ok, the iterator over the queues is dropped
\* unconsumed: no binding is removed.
receive_queue_unbind_ok(cn, c) ==
  IF ~contains_key(cn, c) THEN R(cn, Err("InvalidChannel"))
  ELSE IF ~is_connected(cn, c) THEN R(cn, Err("InvalidState"))
  ELSE LET g == get_next_answer(cn, c) IN
    IF g.ret # None /\ g.ret[1].kind = "AwaitingQueueUnbindOk"
      THEN R([g.conn EXCEPT !.finished_reqs = @ \cup {g.ret[1].request_id}], Ok(Unit))
      ELSE R(set_channel_state(g.conn, c, StateError), Err("UnexpectedAnswer"))

\* -------------------------------------------------------------- basic class
basic_qos(cn, c, prefetch_size, prefetch_count, global, sent) ==
  IF ~contains_key(cn, c) THEN R(cn, Err("InvalidChannel"))
  ELSE IF ~is_connected(cn, c) THEN R(cn, Err("InvalidState"))
  ELSE Awaited(send_method_frame(cn, c, "basic.qos",
                                 <<prefetch_size, prefetch_count, global>>, sent), c,
               LAMBDA id : AwaitingBasicQosOk(id, prefetch_size, prefetch_count, global))

\* receive_basic_qos_ok reporting the mismatch without the state change.
receive_basic_qos_ok_StateKept(cn, c) ==
  IF ~contains_key(cn, c) THEN R(cn, Err("InvalidChannel"))
  ELSE IF ~is_connected(cn, c) THEN R(cn, Err("InvalidState"))
  ELSE LET g == get_next_answer(cn, c) IN
    IF g.ret # None /\ g.ret[1].kind = "AwaitingBasicQosOk"
      THEN R([g.conn EXCEPT !.finished_reqs = @ \cup {g.ret[1].request_id}], Ok(Unit))
      ELSE R(g.conn, Err("UnexpectedAnswer"))

\* receive_basic_qos_ok that applies the window to the connection and to the
\* channel whatever the global flag.
receive_basic_qos_ok_BothLevels(cn, c) ==
  IF ~contains_key(cn, c) THEN R(cn, Err("InvalidChannel"))
  ELSE IF ~is_connected(cn, c) THEN R(cn, Err("InvalidState"))
  ELSE LET g == get_next_answer(cn, c) IN
    IF g.ret # None /\ g.ret[1].kind = "AwaitingBasicQosOk"
      THEN LET f == [g.conn EXCEPT !.finished_reqs = @ \cup {g.ret[1].request_id}]
               a == g.ret[1].args
               b == [f EXCEPT !.prefetch_size = a[1], !.prefetch_count = a[2]]
           IN R(WithChan(b, c, [Chan(b, c) EXCEPT !.prefetch_size = a[1],
                                                  !.prefetch_count = a[2]]),
                Ok(Unit))
      ELSE R(set_channel_state(g.conn, c, StateError), Err("UnexpectedAnswer"))

receive_basic_qos_ok(cn, c) ==
  IF ~contains_key(cn, c) THEN R(cn, Err("InvalidChannel"))
  ELSE IF ~is_connected(cn, c) THEN R(cn, Err("InvalidState"))
  ELSE LET g == get_next_answer(cn, c) IN
    IF g.ret # None /\ g.ret[1].kind = "AwaitingBasicQosOk"
      THEN LET f == [g.conn EXCEPT !.finished_reqs = @ \cup {g.ret[1].request_id}]
               a == g.ret[1].args
           IN R(IF a[3]
                  THEN [f EXCEPT !.prefetch_size = a[1], !.prefetch_count = a[2]]
                  ELSE WithChan(f, c, [Chan(f, c) EXCEPT !.prefetch_size = a[1],
                                                         !.prefetch_count = a[2]]),
                Ok(Unit))
      ELSE R(set_channel_state(g.conn, c, StateError), Err("UnexpectedAnswer"))

basic_consume(cn, c, queue, consumer_tag, sent) ==
  IF ~contains_key(cn, c) THEN R(cn, Err("InvalidChannel"))
  ELSE IF ~is_connected(cn, c) THEN R(cn, Err("InvalidState"))
  ELSE Awaited(send_method_frame(cn, c, "basic.consume", <<queue, consumer_tag>>, sent),
               c, LAMBDA id : AwaitingBasicConsumeOk(id, queue, consumer_tag))

\* receive_basic_consume_ok that registers the consumer under the tag the
\* client requested.
receive_basic_consume_ok_RequestedTag(cn, c, consumer_tag) ==
  IF ~contains_key(cn, c) THEN R(cn, Err("InvalidChannel"))
  ELSE IF ~is_connected(cn, c) THEN R(cn, Err("InvalidState"))
  ELSE LET g == get_next_answer(cn, c) IN
    IF g.ret # None /\ g.ret[1].kind = "AwaitingBasicConsumeOk"
      THEN LET f == [g.conn EXCEPT !.finished_reqs = @ \cup {g.ret[1].request_id}]
               queue == g.ret[1].args[1]
               tag == g.ret[1].args[2]
               ch == Chan(f, c)
           IN R(IF ch.queues[queue] = None THEN f
                ELSE WithChan(f, c,
                       [ch EXCEPT !.queues[queue] =
                          Some([@[1] EXCEPT !.consumers[tag] =
                                  Some(Consumer_new(tag))])]),
                Ok(Unit))
      ELSE R(set_channel_state(g.conn, c, StateError), Err("UnexpectedAnswer"))

\* The consumer is stored under the tag of the reply (method.consumer_tag), in
\* the queue named by the Answer, when the channel knows that queue.
receive_basic_consume_ok(cn, c, consumer_tag) ==
  IF ~contains_key(cn, c) THEN R(cn, Err("InvalidChannel"))
  ELSE IF ~is_connected(cn, c) THEN R(cn, Err("InvalidState"))
  ELSE LET g == get_next_answer(cn, c) IN
    IF g.ret # None /\ g.ret[1].kind = "AwaitingBasicConsumeOk"
      THEN LET f == [g.conn EXCEPT !.finished_reqs = @ \cup {g.ret[1].request_id}]
               queue == g.ret[1].args[1]
               ch == Chan(f, c)
           IN R(IF ch.queues[queue] = None THEN f
                ELSE WithChan(f, c,
                       [ch EXCEPT !.queues[queue] =
                          Some([@[1] EXCEPT !.consumers[consumer_tag] =
                                  Some(Consumer_new(consumer_tag))])]),
                Ok(Unit))
      ELSE R(set_channel_state(g.conn, c, StateError), Err("UnexpectedAnswer"))

basic_cancel(cn, c, consumer_tag, sent) ==
  IF ~contains_key(cn, c) THEN R(cn, Err("InvalidChannel"))
  ELSE IF ~is_connected(cn, c) THEN R(cn, Err("InvalidState"))
  ELSE Awaited(send_method_frame(cn, c, "basic.cancel", <<consumer_tag>>, sent), c,
               AwaitingBasicCancelOk)

\* The matching arm neither records the request id as finished nor removes
\* a consumer: the iterator over the queues is dropped unconsumed.
receive_basic_cancel_ok(cn, c, consumer_tag) ==
  IF ~contains_key(cn, c) THEN R(cn, Err("InvalidChannel"))
  ELSE IF ~is_connected(cn, c) THEN R(cn, Err("InvalidState"))
  ELSE LET g == get_next_answer(cn, c) IN
    IF g.ret # None /\ g.ret[1].kind = "AwaitingBasicCancelOk"
      THEN R(g.conn, Ok(Unit))
      ELSE R(set_channel_state(g.conn, c, StateError), Err("UnexpectedAnswer"))

basic_publish(cn, c, exchange, routing_key, sent) ==
  IF ~contains_key(cn, c) THEN R(cn, Err("InvalidChannel"))
  ELSE IF ~is_connected(cn, c) THEN R(cn, Err("InvalidState"))
  ELSE send_method_frame(cn, c, "basic.publish", <<exchange, routing_key>>, sent)

receive_basic_amqp_return_Answered(cn, c) ==
  IF ~contains_key(cn, c) THEN R(cn, Err("InvalidChannel"))
  ELSE IF ~is_connected(cn, c) THEN R(cn, Err("InvalidState"))
  ELSE R(get_next_answer(cn, c).conn, Ok(Unit))

receive_basic_amqp_return(cn, c) ==
  IF ~contains_key(cn, c) THEN R(cn, Err("InvalidChannel"))
  ELSE IF ~is_connected(cn, c) THEN R(cn, Err("InvalidState"))
  ELSE R(cn, Ok(Unit))

\* The loop visits every queue of the channel: each visit sets the state to
\* WillReceiveContent(that queue, tag) and, where the queue has a consumer
\* under the tag, its current_message.  The state left is the one of the
\* queue visited last; a HashMap's order is not fixed, so `last` is any of
\* the channel's queues.
receive_basic_deliver(cn, c, consumer_tag, delivery_tag, last) ==
  IF ~contains_key(cn, c) THEN R(cn, Err("InvalidChannel"))
  ELSE IF ~is_connected(cn, c) THEN R(cn, Err("InvalidState"))
  ELSE LET ch == Chan(cn, c)
           visit(q) ==
             IF ch.queues[q] = None THEN None
             ELSE IF ch.queues[q][1].consumers[consumer_tag] = None THEN ch.queues[q]
             ELSE Some([ch.queues[q][1] EXCEPT !.consumers[consumer_tag] =
                          Some([@[1] EXCEPT !.current_message =
                                  Some([delivery_tag |-> delivery_tag])])])
       IN R(WithChan(cn, c,
              [ch EXCEPT !.queues = [q \in QueueNames |-> visit(q)],
                         !.state = IF ch.queues[last] = None THEN @
                                   ELSE WillReceiveContent(last, consumer_tag)]),
            Ok(Unit))

basic_get(cn, c, queue, sent) ==
  IF ~contains_key(cn, c) THEN R(cn, Err("InvalidChannel"))
  ELSE IF ~is_connected(cn, c) THEN R(cn, Err("InvalidState"))
  ELSE Awaited(send_method_frame(cn, c, "basic.get", <<queue>>, sent), c,
               AwaitingBasicGetAnswer)

receive_basic_get_ok(cn, c) ==
  IF ~contains_key(cn, c) THEN R(cn, Err("InvalidChannel"))
  ELSE IF ~is_connected(cn, c) THEN R(cn, Err("InvalidState"))
  ELSE LET g == get_next_answer(cn, c) IN
    IF g.ret # None /\ g.ret[1].kind = "AwaitingBasicGetAnswer"
      THEN R(g.conn, Ok(Unit))
      ELSE R(set_channel_state(g.conn, c, StateError), Err("UnexpectedAnswer"))

receive_basic_get_empty_Kept(cn, c) ==
  IF ~contains_key(cn, c) THEN R(cn, Err("InvalidChannel"))
  ELSE IF ~is_connected(cn, c) THEN R(cn, Err("InvalidState"))
  ELSE LET g == get_next_answer(cn, c) IN
    IF g.ret # None /\ g.ret[1].kind = "AwaitingBasicGetAnswer"
      THEN R(cn, Ok(Unit))
      ELSE R(set_channel_state(g.conn, c, StateError), Err("UnexpectedAnswer"))

receive_basic_get_empty(cn, c) ==
  IF ~contains_key(cn, c) THEN R(cn, Err("InvalidChannel"))
  ELSE IF ~is_connected(cn, c) THEN R(cn, Err("InvalidState"))
  ELSE LET g == get_next_answer(cn, c) IN
    IF g.ret # None /\ g.ret[1].kind = "AwaitingBasicGetAnswer"
      THEN R(g.conn, Ok(Unit))
      ELSE R(set_channel_state(g.conn, c, StateError), Err("UnexpectedAnswer"))

basic_ack(cn, c, delivery_tag, multiple, sent) ==
  IF ~contains_key(cn, c) THEN R(cn, Err("InvalidChannel"))
  ELSE IF ~is_connected(cn, c) THEN R(cn, Err("InvalidState"))
  ELSE send_method_frame(cn, c, "basic.ack", <<delivery_tag, multiple>>, sent)

basic_reject(cn, c, delivery_tag, requeue, sent) ==
  IF ~contains_key(cn, c) THEN R(cn, Err("InvalidChannel"))
  ELSE IF ~is_connected(cn, c) THEN R(cn, Err("InvalidState"))
  ELSE send_method_frame(cn, c, "basic.reject", <<delivery_tag, requeue>>, sent)

basic_recover_async(cn, c, requeue, sent) ==
  IF ~contains_key(cn, c) THEN R(cn, Err("InvalidChannel"))
  ELSE IF ~is_connected(cn, c) THEN R(cn, Err("InvalidState"))
  ELSE send_method_frame(cn, c, "basic.recover-async", <<requeue>>, sent)

basic_recover(cn, c, requeue, sent) ==
  IF ~contains_key(cn, c) THEN R(cn, Err("InvalidChannel"))
  ELSE IF ~is_connected(cn, c) THEN R(cn, Err("InvalidState"))
  ELSE Awaited(send_method_frame(cn, c, "basic.recover", <<requeue>>, sent), c,
               AwaitingBasicRecoverOk)

receive_basic_recover_ok(cn, c) ==
  IF ~contains_key(cn, c) THEN R(cn, Err("InvalidChannel"))
  ELSE IF ~is_connected(cn, c) THEN R(cn, Err("InvalidState"))
  ELSE LET g == get_next_answer(cn, c) IN
    IF g.ret # None /\ g.ret[1].kind = "AwaitingBasicRecoverOk"
      THEN R(g.conn, Ok(Unit))
      ELSE R(set_channel_state(g.conn, c, StateError), Err("UnexpectedAnswer"))

basic_nack(cn, c, delivery_tag, multiple, requeue, sent) ==
  IF ~contains_key(cn, c) THEN R(cn, Err("InvalidChannel"))
  ELSE IF ~is_connected(cn, c) THEN R(cn, Err("InvalidState"))
  ELSE send_method_frame(cn, c, "basic.nack", <<delivery_tag, multiple, requeue>>, sent)

\* ------------------------------------------------------------ receive_method
\* An inbound method: its name and the fields the handlers read.
InMethod(name, args) == [name |-> name, args |-> args]

\* Connection::receive_method: the handler of the method's class and kind; a
\* method the client should not receive is an InvalidState error.  `sent`
\* and `last` are what the handlers that send or visit the queues are given.
receive_method(cn, c, method, sent, last) ==
  CASE method.name = "channel.open-ok" -> receive_channel_open_ok(cn, c)
    [] method.name = "channel.flow" -> receive_channel_flow(cn, c, method.args[1], sent)
    [] method.name = "channel.flow-ok" -> receive_channel_flow_ok(cn, c, method.args[1])
    [] method.name = "channel.close" -> receive_channel_close(cn, c, sent)
    [] method.name = "channel.close-ok" -> receive_channel_close_ok(cn, c)
    [] method.name = "queue.declare-ok" ->
         receive_queue_declare_ok(cn, c, method.args[1], method.args[2], method.args[3])
    [] method.name = "queue.bind-ok" -> receive_queue_bind_ok(cn, c)
    [] method.name = "queue.purge-ok" -> receive_queue_purge_ok(cn, c)
    [] method.name = "queue.delete-ok" -> receive_queue_delete_ok(cn, c)
    [] method.name = "queue.unbind-ok" -> receive_queue_unbind_ok(cn, c)
    [] method.name = "basic.qos-ok" -> receive_basic_qos_ok(cn, c)
    [] method.name = "basic.consume-ok" -> receive_basic_consume_ok(cn, c, method.args[1])
    [] method.name = "basic.cancel-ok" -> receive_basic_cancel_ok(cn, c, method.args[1])
    [] method.name = "basic.return" -> receive_basic_amqp_return(cn, c)
    [] method.name = "basic.deliver" ->
         receive_basic_deliver(cn, c, method.args[1], method.args[2], last)
    [] method.name = "basic.get-ok" -> receive_basic_get_ok(cn, c)
    [] method.name = "basic.get-empty" -> receive_basic_get_empty(cn, c)
    [] method.name = "basic.recover-ok" -> receive_basic_recover_ok(cn, c)
    [] OTHER -> R(cn, Err("InvalidState"))

\* ================================================================ Consumer
\* consumer.rs.  A DeliveryResult is Ok(Some(delivery)), Ok(None) (the cancel
\* sentinel) or Err(error); the channel paired with a delivery is left out.
\* The flume channel (deliveries_in, deliveries_out) is one unbounded FIFO:
\* the sequence deliveries, oldest first.
Wakers == {"w1", "w2"}
Delegates == {"d1"}
Payloads == {"a"}
PropertyValues == {1}

\* A Delivery being assembled: its tag, its properties (0: the default) and
\* the payloads received so far.
Delivery(delivery_tag) ==
  [delivery_tag |-> delivery_tag, properties |-> 0, data |-> <<>>]
\* Delivery::receive_content: the payload joins the body.
receive_content(delivery, payload) ==
  [delivery EXCEPT !.data = Append(@, payload)]

\* Poll<Option<Result<Delivery>>>
Pending == <<"Pending">>
Ready(v) == <<"Ready", v>>

\* What an operation of the consumer leaves: the ConsumerInner afterwards,
\* the wakers it woke, in order, and what it returns.
CR(s, woken, ret) == [inner |-> s, woken |-> woken, ret |-> ret]

\* The futures a delegate's methods return, as handed to the executor.
on_new_delivery(delivery) == <<"on_new_delivery", delivery>>
on_drop_prefetched_messages == <<"drop_prefetched_messages">>
\* Executor::spawn: the future joins the tasks spawned on the executor.
spawn(s, future) == [s EXCEPT !.executor = Append(@, future)]

\* ConsumerInner::new keeps the receiver of its channel in deliveries_out;
\* that ConsumerInner holds no receiver of its own.
ConsumerInner_new_NoReceiver(consumer_tag) ==
  [current_message |-> None,
   deliveries |-> <<>>,
   receivers |-> 0,
   task |-> None,
   tag |-> consumer_tag,
   delegate |-> None,
   executor |-> <<>>]

\* flume::unbounded() gives one sender and one receiver of an empty channel;
\* both are kept (deliveries_in, deliveries_out), so the channel counts one
\* receiver.
ConsumerInner_new(consumer_tag) ==
  [current_message |-> None,
   deliveries |-> <<>>,
   receivers |-> 1,
   task |-> None,
   tag |-> consumer_tag,
   delegate |-> None,
   executor |-> <<>>]

\* The receivers held by iterators: all but the one in deliveries_out.
Iterators(s) == IF s.receivers = 0 THEN 0 ELSE s.receivers - 1

\* deliveries_out.try_recv().ok()
next_delivery(s) ==
  IF s.deliveries = <<>> THEN CR(s, <<>>, None)
  ELSE CR([s EXCEPT !.deliveries = Tail(@)], <<>>, Some(Head(s.deliveries)))

\* deliveries_in.send(item): the item joins the channel, unless every receiver
\* of the channel has been dropped, when the send fails and the item is lost
\* (the expect on the result then panics).
send(s, item) ==
  IF s.receivers = 0 THEN CR(s, <<>>, Err("SendError"))
  ELSE CR([s EXCEPT !.deliveries = Append(@, item)], <<>>, Ok(Unit))

\* Consumer::into_iter: the iterator holds a clone of deliveries_out.
into_iter(s) == CR([s EXCEPT !.receivers = @ + 1], <<>>, Unit)
\* Dropping an iterator drops its receiver.
drop_iterator(s) == CR([s EXCEPT !.receivers = @ - 1], <<>>, Unit)

publish_Both(s, result) ==
  IF s.delegate # None
    THEN spawn([s EXCEPT !.deliveries = Append(@, result)], on_new_delivery(result))
    ELSE [s EXCEPT !.deliveries = Append(@, result)]

\* The publish common to new_delivery, cancel and set_error: to the delegate
\* when one is set, else into the channel.
publish(s, result) ==
  IF s.delegate # None THEN spawn(s, on_new_delivery(result))
  ELSE send(s, result).inner

\* new_delivery that publishes and wakes no one.
ConsumerInner_new_delivery_NoWake(s, delivery) ==
  CR(publish(s, Ok(Some(delivery))), <<>>, Unit)

ConsumerInner_new_delivery(s, delivery) ==
  LET p == publish(s, Ok(Some(delivery)))
  IN CR(p, IF p.task # None THEN <<p.task[1]>> ELSE <<>>, Unit)

\* drop_prefetched_messages that takes only the oldest queued item.
ConsumerInner_drop_prefetched_messages_One(s) ==
  LET d == IF s.delegate # None THEN spawn(s, on_drop_prefetched_messages) ELSE s
  IN CR(next_delivery(d).inner, <<>>, Unit)

ConsumerInner_drop_prefetched_messages(s) ==
  LET d == IF s.delegate # None THEN spawn(s, on_drop_prefetched_messages) ELSE s
  IN CR([d EXCEPT !.deliveries = <<>>], <<>>, Unit)

\* cancel that publishes the sentinel and leaves the registered waker asleep.
ConsumerInner_cancel_Silent(s) ==
  CR(publish(s, Ok(None)), <<>>, Unit)

ConsumerInner_cancel(s) ==
  LET p == publish(s, Ok(None))
  IN IF p.task # None
       THEN CR([p EXCEPT !.task = None], <<p.task[1]>>, Unit)
       ELSE CR(p, <<>>, Unit)

\* set_error that publishes the error and does not cancel.
ConsumerInner_set_error_NoCancel(s, error) ==
  CR(publish(s, Err(error)), <<>>, Unit)

ConsumerInner_set_error(s, error) ==
  ConsumerInner_cancel(publish(s, Err(error)))

\* set_delegate: every queued result goes to the delegate, oldest first, then
\* the delegate is installed.
RECURSIVE SpawnQueued(_)
SpawnQueued(s) ==
  LET n == next_delivery(s)
  IN IF n.ret = None THEN s
     ELSE SpawnQueued(spawn(n.inner, on_new_delivery(n.ret[1])))
\* set_delegate that installs the delegate and leaves the queue as it is.
set_delegate_NoFlush(s, delegate) ==
  CR([s EXCEPT !.delegate = Some(delegate)], <<>>, Unit)

set_delegate(s, delegate) ==
  CR([SpawnQueued(s) EXCEPT !.delegate = Some(delegate)], <<>>, Unit)

start_new_delivery(s, delivery) ==
  CR([s EXCEPT !.current_message = Some(delivery)], <<>>, Unit)

set_delivery_properties(s, properties) ==
  CR(IF s.current_message # None
       THEN [s EXCEPT !.current_message = Some([@[1] EXCEPT !.properties = properties])]
       ELSE s,
     <<>>, Unit)

receive_delivery_content(s, payload) ==
  CR(IF s.current_message # None
       THEN [s EXCEPT !.current_message = Some(receive_content(@[1], payload))]
       ELSE s,
     <<>>, Unit)

\* new_delivery_complete that publishes the message and keeps it in progress.
new_delivery_complete_Kept(s) ==
  IF s.current_message # None
    THEN ConsumerInner_new_delivery(s, s.current_message[1])
    ELSE CR(s, <<>>, Unit)

new_delivery_complete(s) ==
  IF s.current_message # None
    THEN ConsumerInner_new_delivery([s EXCEPT !.current_message = None],
                                    s.current_message[1])
    ELSE CR(s, <<>>, Unit)

\* Stream::poll_next with the waker of the polling task's context.
poll_next(s, waker) ==
  LET n == next_delivery([s EXCEPT !.task = Some(waker)])
  IN IF n.ret = None THEN CR(n.inner, <<>>, Pending)
     ELSE LET delivery == n.ret[1]
          IN IF delivery[1] = "Err"
               THEN CR(n.inner, <<>>, Ready(Some(delivery)))
               ELSE IF delivery[2] = None
                 THEN CR(n.inner, <<>>, Ready(None))
                 ELSE CR(n.inner, <<>>, Ready(Some(Ok(delivery[2][1]))))

\* ConsumerIterator::next on a clone of deliveries_out: recv() blocks while
\* the channel is empty, so the call returns only for a non-empty channel,
\* with the head item transposed (Ok(Some(d)) -> Some(Ok(d)), Ok(None) ->
\* None, Err(e) -> Some(Err(e))).
ConsumerIterator_next_Peek(s) ==
  LET delivery == Head(s.deliveries)
  IN IF delivery[1] = "Err" THEN CR(s, <<>>, Some(delivery))
     ELSE IF delivery[2] = None THEN CR(s, <<>>, None)
     ELSE CR(s, <<>>, Some(Ok(delivery[2][1])))

ConsumerIterator_next(s) ==
  LET delivery == Head(s.deliveries)
      r == [s EXCEPT !.deliveries = Tail(@)]
  IN IF delivery[1] = "Err" THEN CR(r, <<>>, Some(delivery))
     ELSE IF delivery[2] = None THEN CR(r, <<>>, None)
     ELSE CR(r, <<>>, Some(Ok(delivery[2][1])))

\* ------------------------------------------------------------------ Frames
ResolverIds == 1..MaxEnqueue

\* Calls that enqueued so far.
nEnqueue == nPush + Len(pushed) + Len(retried)

\* swear(result) on each resolver of rs.
SwearAll(sw, rs, result) ==
  [r \in DOMAIN sw |->
     IF \E i \in 1..Len(rs) : rs[i] = r THEN Append(sw[r], result) ELSE sw[r]]

\* Mutation of CancelAll: the replies are cancelled newest first.
CancelAll_Reversed(rs, error) ==
  [i \in 1..Len(rs) |-> <<rs[Len(rs) + 1 - i], error>>]

\* cancel(error) on each reply of rs, in order.
CancelAll(rs, error) == [i \in 1..Len(rs) |-> <<rs[i], error>>]

FramesInit ==
  /\ inner = InnerDefault
  /\ held = {}
  /\ sworn = [r \in ResolverIds |-> <<>>]
  /\ cancelled = [c \in FChannels |-> <<>>]
  /\ emitted = <<>>
  /\ retried = <<>>
  /\ registered = [c \in FChannels |-> <<>>]
  /\ returned = [c \in FChannels |-> <<>>]
  /\ nPush = 0
  /\ pushed = <<>>
  /\ nRes = 0

ApiInit == conn = Connection_new

ConsumerInit ==
  /\ consumer = ConsumerInner_new("test-consumer")
  /\ awoken_count = [w \in Wakers |-> 0]
  /\ polled = None
  /\ received = <<>>
  /\ nDeliveries = 0
  /\ nCalls = 0
  /\ subscriber = [last |-> None, parked |-> {}]

Init == FramesInit /\ ApiInit /\ ConsumerInit

\* Frames::push(channel_id, frame, resolver, expected_reply)
Push(channel_id, with_reply) ==
  /\ nEnqueue < MaxEnqueue
  /\ LET frame == Frame("Method", 0, nPush + 1)
         reply == [ch |-> channel_id, n |-> Len(registered[channel_id]) + 1]
         expected_reply == IF with_reply THEN Some(reply) ELSE None
     IN /\ inner' = Inner_push(inner, channel_id, frame, nRes + 1, expected_reply)
        /\ registered' = IF with_reply
                           THEN [registered EXCEPT ![channel_id] = Append(@, reply)]
                           ELSE registered
  /\ nPush' = nPush + 1
  /\ nRes' = nRes + 1
  /\ UNCHANGED <<conn, cvars, held, sworn, cancelled, emitted, retried, returned, pushed>>

\* Frames::push_frames(frames): the promise's resolver is created inside.
PushFrames(fs) ==
  /\ nEnqueue < MaxEnqueue
  /\ LET r == Inner_push_frames(inner, fs, nRes + 1)
     IN /\ inner' = r.inner
        /\ sworn' = [sworn EXCEPT ![nRes + 1] = @ \o r.swear]
  /\ pushed' = Append(pushed, fs)
  /\ nRes' = nRes + 1
  /\ UNCHANGED <<conn, cvars, held, cancelled, emitted, retried, registered, returned, nPush>>

\* Frames::retry(frame): the caller gives back a pair pop returned to it.
Retry(pair) ==
  /\ nEnqueue < MaxEnqueue
  /\ pair \in held
  /\ inner' = Frames_retry(inner, pair)
  /\ held' = held \ {pair}
  /\ retried' = Append(retried, pair)
  /\ UNCHANGED <<conn, cvars, sworn, cancelled, emitted, registered, returned, nPush, pushed, nRes>>

\* Frames::pop(flow): the returned pair is the caller's from now on.
Pop(flow) ==
  /\ LET r == Inner_pop(inner, flow)
     IN /\ inner' = r.inner
        /\ held' = IF r.ret = None THEN held ELSE held \cup {r.ret[1]}
        /\ emitted' = emitted \o r.ret
  /\ UNCHANGED <<conn, cvars, sworn, cancelled, retried, registered, returned, nPush, pushed, nRes>>

\* Frames::next_expected_reply(channel_id)
NextExpectedReply(channel_id) ==
  /\ LET r == Frames_next_expected_reply(inner, channel_id)
     IN /\ inner' = r.inner
        /\ returned' = [returned EXCEPT ![channel_id] = @ \o r.ret]
  /\ UNCHANGED <<conn, cvars, held, sworn, cancelled, emitted, retried, registered, nPush, pushed, nRes>>

\* Frames::drop_pending(error)
DropPending(error) ==
  /\ LET r == Inner_drop_pending(inner)
     IN /\ inner' = r.inner
        /\ sworn' = SwearAll(sworn, r.failed, error)
        /\ cancelled' = [c \in FChannels |->
                           cancelled[c] \o CancelAll(r.cancels[c], error)]
  /\ UNCHANGED <<conn, cvars, held, emitted, retried, registered, returned, nPush, pushed, nRes>>

\* Frames::clear_expected_replies(channel_id, error)
ClearExpectedReplies(channel_id, error) ==
  /\ LET r == Inner_clear_expected_replies(inner, channel_id)
     IN /\ inner' = r.inner
        /\ cancelled' = [cancelled EXCEPT ![channel_id] = @ \o CancelAll(r.cancels, error)]
  /\ UNCHANGED <<conn, cvars, held, sworn, emitted, retried, registered, returned, nPush, pushed, nRes>>

\* The frame scheduler: every way frames enter and leave the lanes.  The
\* callers' pushes go to the channels in turn and the pending work is dropped
\* with one error (RepliesSpec below drops with either).
FramesNext ==
  \/ \E w \in BOOLEAN : Push(1 + (nPush % Cardinality(FChannels)), w)
  \/ \E fs \in BatchShapes(Len(pushed) + 1) : PushFrames(fs)
  \/ \E pair \in held : Retry(pair)
  \/ \E flow \in BOOLEAN : Pop(flow)
  \/ DropPending("E1")

FramesSpec == Init /\ [][FramesNext]_vars

\* The expected replies: registered by push, taken by next_expected_reply,
\* cancelled by clear_expected_replies and drop_pending.
RepliesNext ==
  \/ \E c \in FChannels, w \in BOOLEAN : Push(c, w)
  \/ \E flow \in BOOLEAN : Pop(flow)
  \/ \E c \in FChannels : NextExpectedReply(c)
  \/ \E c \in FChannels, e \in Errors : ClearExpectedReplies(c, e)
  \/ \E e \in Errors : DropPending(e)

RepliesSpec == Init /\ [][RepliesNext]_vars

\* ------------------------------------------------------ the connection's API
\* Frames handed to send_method_frame so far.
nFrames == Len(conn.frame_queue)
\* The queues receive_basic_deliver's loop can visit last.
LastQueues(cn, c) ==
  IF contains_key(cn, c) /\ \E q \in QueueNames : Chan(cn, c).queues[q] # None
    THEN {q \in QueueNames : Chan(cn, c).queues[q] # None}
    ELSE QueueNames

\* Each action is one call: the connection becomes what the handler left.  A
\* call that may send a frame is taken while the run's frame budget lasts.

CreateChannel ==
  /\ conn' = create_channel(conn).conn
  /\ UNCHANGED <<fvars, cvars>>
ChannelOpen(c, sent) ==
  /\ nFrames < MaxFrames
  /\ conn' = channel_open(conn, c, sent).conn
  /\ UNCHANGED <<fvars, cvars>>
ReceiveChannelOpenOk(c) ==
  /\ conn' = receive_channel_open_ok(conn, c).conn
  /\ UNCHANGED <<fvars, cvars>>
ChannelFlow(c, active, sent) ==
  /\ nFrames < MaxFrames
  /\ conn' = channel_flow(conn, c, active, sent).conn
  /\ UNCHANGED <<fvars, cvars>>
ReceiveChannelFlow(c, active, sent) ==
  /\ nFrames < MaxFrames
  /\ conn' = receive_channel_flow(conn, c, active, sent).conn
  /\ UNCHANGED <<fvars, cvars>>
ReceiveChannelFlowOk(c, active) ==
  /\ conn' = receive_channel_flow_ok(conn, c, active).conn
  /\ UNCHANGED <<fvars, cvars>>
ChannelClose(c, sent) ==
  /\ nFrames < MaxFrames
  /\ conn' = channel_close(conn, c, sent).conn
  /\ UNCHANGED <<fvars, cvars>>
ReceiveChannelClose(c, sent) ==
  /\ conn' = receive_channel_close(conn, c, sent).conn
  /\ UNCHANGED <<fvars, cvars>>
ReceiveChannelCloseOk(c) ==
  /\ conn' = receive_channel_close_ok(conn, c).conn
  /\ UNCHANGED <<fvars, cvars>>
QueueDeclare(c, queue, sent) ==
  /\ nFrames < MaxFrames
  /\ conn' = queue_declare(conn, c, queue, sent).conn
  /\ UNCHANGED <<fvars, cvars>>
ReceiveQueueDeclareOk(c, queue, message_count, consumer_count) ==
  /\ conn' = receive_queue_declare_ok(conn, c, queue, message_count, consumer_count).conn
  /\ UNCHANGED <<fvars, cvars>>
QueueBind(c, queue, exchange, routing_key, sent) ==
  /\ nFrames < MaxFrames
  /\ conn' = queue_bind(conn, c, queue, exchange, routing_key, sent).conn
  /\ UNCHANGED <<fvars, cvars>>
ReceiveQueueBindOk(c) ==
  /\ conn' = receive_queue_bind_ok(conn, c).conn
  /\ UNCHANGED <<fvars, cvars>>
QueuePurge(c, queue, sent) ==
  /\ nFrames < MaxFrames
  /\ conn' = queue_purge(conn, c, queue, sent).conn
  /\ UNCHANGED <<fvars, cvars>>
ReceiveQueuePurgeOk(c) ==
  /\ conn' = receive_queue_purge_ok(conn, c).conn
  /\ UNCHANGED <<fvars, cvars>>
QueueDelete(c, queue, sent) ==
  /\ nFrames < MaxFrames
  /\ conn' = queue_delete(conn, c, queue, sent).conn
  /\ UNCHANGED <<fvars, cvars>>
ReceiveQueueDeleteOk(c) ==
  /\ conn' = receive_queue_delete_ok(conn, c).conn
  /\ UNCHANGED <<fvars, cvars>>
QueueUnbind(c, queue, exchange, routing_key, sent) ==
  /\ nFrames < MaxFrames
  /\ conn' = queue_unbind(conn, c, queue, exchange, routing_key, sent).conn
  /\ UNCHANGED <<fvars, cvars>>
ReceiveQueueUnbindOk(c) ==
  /\ conn' = receive_queue_unbind_ok(conn, c).conn
  /\ UNCHANGED <<fvars, cvars>>
BasicQos(c, prefetch_size, prefetch_count, global, sent) ==
  /\ nFrames < MaxFrames
  /\ conn' = basic_qos(conn, c, prefetch_size, prefetch_count, global, sent).conn
  /\ UNCHANGED <<fvars, cvars>>
ReceiveBasicQosOk(c) ==
  /\ conn' = receive_basic_qos_ok(conn, c).conn
  /\ UNCHANGED <<fvars, cvars>>
BasicConsume(c, queue, consumer_tag, sent) ==
  /\ nFrames < MaxFrames
  /\ conn' = basic_consume(conn, c, queue, consumer_tag, sent).conn
  /\ UNCHANGED <<fvars, cvars>>
ReceiveBasicConsumeOk(c, consumer_tag) ==
  /\ conn' = receive_basic_consume_ok(conn, c, consumer_tag).conn
  /\ UNCHANGED <<fvars, cvars>>
BasicCancel(c, consumer_tag, sent) ==
  /\ nFrames < MaxFrames
  /\ conn' = basic_cancel(conn, c, consumer_tag, sent).conn
  /\ UNCHANGED <<fvars, cvars>>
ReceiveBasicCancelOk(c, consumer_tag) ==
  /\ conn' = receive_basic_cancel_ok(conn, c, consumer_tag).conn
  /\ UNCHANGED <<fvars, cvars>>
BasicPublish(c, exchange, routing_key, sent) ==
  /\ nFrames < MaxFrames
  /\ conn' = basic_publish(conn, c, exchange, routing_key, sent).conn
  /\ UNCHANGED <<fvars, cvars>>
ReceiveBasicAmqpReturn(c) ==
  /\ conn' = receive_basic_amqp_return(conn, c).conn
  /\ UNCHANGED <<fvars, cvars>>
ReceiveBasicDeliver(c, consumer_tag, delivery_tag) ==
  /\ \E last \in LastQueues(conn, c) :
       conn' = receive_basic_deliver(conn, c, consumer_tag, delivery_tag, last).conn
  /\ UNCHANGED <<fvars, cvars>>
BasicGet(c, queue, sent) ==
  /\ nFrames < MaxFrames
  /\ conn' = basic_get(conn, c, queue, sent).conn
  /\ UNCHANGED <<fvars, cvars>>
ReceiveBasicGetOk(c) ==
  /\ conn' = receive_basic_get_ok(conn, c).conn
  /\ UNCHANGED <<fvars, cvars>>
ReceiveBasicGetEmpty(c) ==
  /\ conn' = receive_basic_get_empty(conn, c).conn
  /\ UNCHANGED <<fvars, cvars>>
BasicAck(c, delivery_tag, multiple, sent) ==
  /\ nFrames < MaxFrames
  /\ conn' = basic_ack(conn, c, delivery_tag, multiple, sent).conn
  /\ UNCHANGED <<fvars, cvars>>
BasicReject(c, delivery_tag, requeue, sent) ==
  /\ nFrames < MaxFrames
  /\ conn' = basic_reject(conn, c, delivery_tag, requeue, sent).conn
  /\ UNCHANGED <<fvars, cvars>>
BasicRecoverAsync(c, requeue, sent) ==
  /\ nFrames < MaxFrames
  /\ conn' = basic_recover_async(conn, c, requeue, sent).conn
  /\ UNCHANGED <<fvars, cvars>>
BasicRecover(c, requeue, sent) ==
  /\ nFrames < MaxFrames
  /\ conn' = basic_recover(conn, c, requeue, sent).conn
  /\ UNCHANGED <<fvars, cvars>>
ReceiveBasicRecoverOk(c) ==
  /\ conn' = receive_basic_recover_ok(conn, c).conn
  /\ UNCHANGED <<fvars, cvars>>
BasicNack(c, delivery_tag, multiple, requeue, sent) ==
  /\ nFrames < MaxFrames
  /\ conn' = basic_nack(conn, c, delivery_tag, multiple, requeue, sent).conn
  /\ UNCHANGED <<fvars, cvars>>

\* The channel life cycle and the matching of replies to requests: channels
\* are created, opened, flow-controlled and closed from either side, queues
\* are declared and qos is set, and the server's replies of every kind arrive
\* in any order on any channel id.
ApiNext ==
  \/ CreateChannel
  \/ \E c \in AChannels, sent \in BOOLEAN : ChannelOpen(c, sent)
  \/ \E c \in AChannels : ReceiveChannelOpenOk(c)
  \/ \E c \in AChannels, sent \in BOOLEAN : ChannelFlow(c, FALSE, sent)
  \/ \E c \in AChannels, sent \in BOOLEAN : ReceiveChannelFlow(c, FALSE, sent)
  \/ \E c \in AChannels : ReceiveChannelFlowOk(c, FALSE)
  \/ \E c \in AChannels, sent \in BOOLEAN : ChannelClose(c, sent)
  \/ \E c \in AChannels, sent \in BOOLEAN : ReceiveChannelClose(c, sent)
  \/ \E c \in AChannels : ReceiveChannelCloseOk(c)
  \/ \E c \in AChannels, sent \in BOOLEAN : QueueDeclare(c, "q1", sent)
  \/ \E c \in AChannels : ReceiveQueueDeclareOk(c, "q1", 1, 1)
  \/ \E c \in AChannels, sent \in BOOLEAN : BasicQos(c, 1, 2, FALSE, sent)
  \/ \E c \in AChannels : ReceiveBasicQosOk(c)
  \/ \E c \in AChannels : ReceiveQueueBindOk(c)
  \/ \E c \in AChannels : ReceiveQueuePurgeOk(c)
  \/ \E c \in AChannels : ReceiveQueueDeleteOk(c)
  \/ \E c \in AChannels : ReceiveQueueUnbindOk(c)
  \/ \E c \in AChannels : ReceiveBasicConsumeOk(c, "t1")
  \/ \E c \in AChannels : ReceiveBasicCancelOk(c, "t1")
  \/ \E c \in AChannels : ReceiveBasicGetOk(c)
  \/ \E c \in AChannels : ReceiveBasicGetEmpty(c)
  \/ \E c \in AChannels : ReceiveBasicRecoverOk(c)

ApiSpec == Init /\ [][ApiNext]_vars

\* The queue class: on opened channels queues are declared, bound, purged,
\* deleted and unbound, and the server's replies to these requests arrive in
\* any order on any channel id.
QueueNext ==
  \/ CreateChannel
  \/ \E c \in AChannels, sent \in BOOLEAN : ChannelOpen(c, sent)
  \/ \E c \in AChannels : ReceiveChannelOpenOk(c)
  \/ \E c \in AChannels, q \in QueueNames, sent \in BOOLEAN : QueueDeclare(c, q, sent)
  \/ \E c \in AChannels, q \in QueueNames : ReceiveQueueDeclareOk(c, q, 1, 1)
  \/ \E c \in AChannels, sent \in BOOLEAN : QueueBind(c, "q1", "x", "k", sent)
  \/ \E c \in AChannels : ReceiveQueueBindOk(c)
  \/ \E c \in AChannels, sent \in BOOLEAN : QueuePurge(c, "q1", sent)
  \/ \E c \in AChannels : ReceiveQueuePurgeOk(c)
  \/ \E c \in AChannels, sent \in BOOLEAN : QueueDelete(c, "q1", sent)
  \/ \E c \in AChannels : ReceiveQueueDeleteOk(c)
  \/ \E c \in AChannels, sent \in BOOLEAN : QueueUnbind(c, "q1", "x", "k", sent)
  \/ \E c \in AChannels : ReceiveQueueUnbindOk(c)

QueueSpec == Init /\ [][QueueNext]_vars

\* The basic class: on opened channels with declared queues qos is set for the
\* channel or the connection, consumers are started and cancelled, messages
\* are fetched and recovered, and the server's replies arrive in any order.
BasicNext ==
  \/ CreateChannel
  \/ \E c \in AChannels, sent \in BOOLEAN : ChannelOpen(c, sent)
  \/ \E c \in AChannels : ReceiveChannelOpenOk(c)
  \/ \E c \in AChannels, sent \in BOOLEAN : QueueDeclare(c, "q1", sent)
  \/ \E c \in AChannels : ReceiveQueueDeclareOk(c, "q1", 1, 1)
  \/ \E c \in AChannels, global \in BOOLEAN, sent \in BOOLEAN :
       BasicQos(c, 1, 2, global, sent)
  \/ \E c \in AChannels : ReceiveBasicQosOk(c)
  \/ \E c \in AChannels, q \in QueueNames, sent \in BOOLEAN :
       BasicConsume(c, q, "t1", sent)
  \/ \E c \in AChannels, t \in ConsumerTags : ReceiveBasicConsumeOk(c, t)
  \/ \E c \in AChannels, sent \in BOOLEAN : BasicCancel(c, "t1", sent)
  \/ \E c \in AChannels : ReceiveBasicCancelOk(c, "t1")
  \/ \E c \in AChannels, sent \in BOOLEAN : BasicGet(c, "q1", sent)
  \/ \E c \in AChannels : ReceiveBasicGetOk(c)
  \/ \E c \in AChannels : ReceiveBasicGetEmpty(c)
  \/ \E c \in AChannels, sent \in BOOLEAN : BasicRecover(c, FALSE, sent)
  \/ \E c \in AChannels : ReceiveBasicRecoverOk(c)

BasicSpec == Init /\ [][BasicNext]_vars

\* The frames a channel hands to send_method_frame before a consumer's
\* deliveries can arrive on a channel with two queues: channel.open, two
\* queue.declare and basic.consume fit when MaxFrames is three.
MaxSetup == MaxFrames + 1

SetupQueueDeclare(c, queue) ==
  /\ nFrames < MaxSetup
  /\ conn' = queue_declare(conn, c, queue, TRUE).conn
  /\ UNCHANGED <<fvars, cvars>>
SetupBasicConsume(c, queue, consumer_tag) ==
  /\ nFrames < MaxSetup
  /\ conn' = basic_consume(conn, c, queue, consumer_tag, TRUE).conn
  /\ UNCHANGED <<fvars, cvars>>

\* Inbound content: channel 1 is opened, queues are declared on it and a
\* consumer is started, and the server's replies, basic.deliver and
\* basic.return arrive at any moment on any channel id, whatever replies are
\* still awaited.
ContentNext ==
  \/ CreateChannel
  \/ ChannelOpen(1, TRUE)
  \/ \E c \in AChannels : ReceiveChannelOpenOk(c)
  \/ \E q \in QueueNames : SetupQueueDeclare(1, q)
  \/ \E c \in AChannels, q \in QueueNames : ReceiveQueueDeclareOk(c, q, 1, 1)
  \/ \E q \in QueueNames : SetupBasicConsume(1, q, "t1")
  \/ \E c \in AChannels, t \in ConsumerTags : ReceiveBasicConsumeOk(c, t)
  \/ \E c \in AChannels, t \in ConsumerTags : ReceiveBasicDeliver(c, t, 1)
  \/ \E c \in AChannels : ReceiveBasicAmqpReturn(c)

ContentSpec == Init /\ [][ContentNext]_vars

\* ------------------------------------------------------- Consumer actions
\* The waker counters after the wakers of woken have run, once per entry.
Woken(counts, woken) ==
  [w \in Wakers |-> counts[w] + Cardinality({i \in DOMAIN woken : woken[i] = w})]

\* The subscriber's tasks after the wakers of woken have run: none of them
\* is parked any more.
Unparked(sub, woken) ==
  [sub EXCEPT !.parked = @ \ {woken[i] : i \in DOMAIN woken}]
\* The subscriber's tasks after a poll with that waker returned ret: on
\* Pending the task parks until its waker is woken, on Ready it goes on.
Parked(sub, waker, ret) ==
  [last |-> Some(waker),
   parked |-> IF ret = Pending THEN sub.parked \cup {waker} ELSE sub.parked \ {waker}]

SetDelegate(delegate) ==
  /\ consumer' = set_delegate(consumer, delegate).inner
  /\ UNCHANGED <<fvars, conn, subscriber, awoken_count, polled, received, nDeliveries, nCalls>>

StartNewDelivery ==
  /\ nDeliveries < MaxDeliveries
  /\ consumer' = start_new_delivery(consumer, Delivery(nDeliveries + 1)).inner
  /\ nDeliveries' = nDeliveries + 1
  /\ UNCHANGED <<fvars, conn, subscriber, awoken_count, polled, received, nCalls>>

SetDeliveryProperties(properties) ==
  /\ consumer' = set_delivery_properties(consumer, properties).inner
  /\ UNCHANGED <<fvars, conn, subscriber, awoken_count, polled, received, nDeliveries, nCalls>>

ReceiveDeliveryContent(payload) ==
  /\ consumer.current_message # None
       => Len(consumer.current_message[1].data) < MaxContent
  /\ consumer' = receive_delivery_content(consumer, payload).inner
  /\ UNCHANGED <<fvars, conn, subscriber, awoken_count, polled, received, nDeliveries, nCalls>>

NewDeliveryComplete ==
  /\ consumer' = new_delivery_complete(consumer).inner
  /\ awoken_count' = Woken(awoken_count, new_delivery_complete(consumer).woken)
  /\ subscriber' = Unparked(subscriber, new_delivery_complete(consumer).woken)
  /\ UNCHANGED <<fvars, conn, polled, received, nDeliveries, nCalls>>

DropPrefetchedMessages ==
  /\ nCalls < MaxCalls
  /\ consumer' = ConsumerInner_drop_prefetched_messages(consumer).inner
  /\ nCalls' = nCalls + 1
  /\ UNCHANGED <<fvars, conn, subscriber, awoken_count, polled, received, nDeliveries>>

Cancel ==
  /\ nCalls < MaxCalls
  /\ consumer' = ConsumerInner_cancel(consumer).inner
  /\ awoken_count' = Woken(awoken_count, ConsumerInner_cancel(consumer).woken)
  /\ subscriber' = Unparked(subscriber, ConsumerInner_cancel(consumer).woken)
  /\ nCalls' = nCalls + 1
  /\ UNCHANGED <<fvars, conn, polled, received, nDeliveries>>

SetError(error) ==
  /\ nCalls < MaxCalls
  /\ consumer' = ConsumerInner_set_error(consumer, error).inner
  /\ awoken_count' = Woken(awoken_count, ConsumerInner_set_error(consumer, error).woken)
  /\ subscriber' = Unparked(subscriber, ConsumerInner_set_error(consumer, error).woken)
  /\ nCalls' = nCalls + 1
  /\ UNCHANGED <<fvars, conn, polled, received, nDeliveries>>

PollNext(waker) ==
  /\ consumer' = poll_next(consumer, waker).inner
  /\ polled' = Some(poll_next(consumer, waker).ret)
  /\ received' = IF poll_next(consumer, waker).ret = Pending THEN received
                 ELSE Append(received, poll_next(consumer, waker).ret[2])
  /\ subscriber' = Parked(subscriber, waker, poll_next(consumer, waker).ret)
  /\ UNCHANGED <<fvars, conn, awoken_count, nDeliveries, nCalls>>

IteratorNext ==
  /\ consumer.deliveries # <<>>
  /\ consumer' = ConsumerIterator_next(consumer).inner
  /\ received' = Append(received, ConsumerIterator_next(consumer).ret)
  /\ UNCHANGED <<fvars, conn, subscriber, awoken_count, polled, nDeliveries, nCalls>>

\* A subscriber turns a clone of the consumer into an iterator.
IntoIter ==
  /\ Iterators(consumer) < MaxCalls
  /\ consumer' = into_iter(consumer).inner
  /\ UNCHANGED <<fvars, conn, subscriber, awoken_count, polled, received, nDeliveries, nCalls>>

\* A subscriber drops one of the iterators it holds.
DropIterator ==
  /\ Iterators(consumer) > 0
  /\ consumer' = drop_iterator(consumer).inner
  /\ UNCHANGED <<fvars, conn, subscriber, awoken_count, polled, received, nDeliveries, nCalls>>

\* A subscriber takes the next item from an iterator it holds.
SubscriberNext ==
  /\ Iterators(consumer) > 0
  /\ IteratorNext

\* One consumer without a delegate and its subscribers: the channel publishes
\* deliveries, cancellations and errors while subscribers make iterators,
\* read from them and drop them, in any order.
IteratorsNext ==
  \/ StartNewDelivery
  \/ NewDeliveryComplete
  \/ Cancel
  \/ \E e \in Errors : SetError(e)
  \/ IntoIter
  \/ SubscriberNext
  \/ DropIterator

IteratorsSpec == Init /\ [][IteratorsNext]_vars

\* The stream of one consumer without a delegate: the channel starts and
\* completes deliveries, the consumer is cancelled or fails, its prefetched
\* messages are dropped, and the subscriber polls the stream from tasks with
\* either waker, in any order.
StreamNext ==
  \/ StartNewDelivery
  \/ NewDeliveryComplete
  \/ DropPrefetchedMessages
  \/ Cancel
  \/ SetError("E1")
  \/ \E w \in Wakers : PollNext(w)

StreamSpec == Init /\ [][StreamNext]_vars

\* The hand-off of one consumer's deliveries: the channel starts deliveries
\* and completes them, a delegate is installed at any moment, and the
\* subscriber pulls through the stream and through an iterator made from
\* the same consumer.
DeliveryNext ==
  \/ StartNewDelivery
  \/ NewDeliveryComplete
  \/ \E d \in Delegates : SetDelegate(d)
  \/ \E w \in Wakers : PollNext(w)
  \/ IteratorNext

DeliverySpec == Init /\ [][DeliveryNext]_vars

\* Prefetched messages: deliveries are completed and queued or handed to a
\* delegate, the subscriber polls the stream, and the channel drops what the
\* consumer has prefetched at any moment.
PrefetchNext ==
  \/ StartNewDelivery
  \/ NewDeliveryComplete
  \/ \E d \in Delegates : SetDelegate(d)
  \/ DropPrefetchedMessages
  \/ \E w \in Wakers : PollNext(w)

PrefetchSpec == Init /\ [][PrefetchNext]_vars

\* The assembly of deliveries: the channel starts a delivery, sets its
\* properties, adds the content it receives and completes it, in any order
\* and also with no delivery in progress, while the subscriber's task polls.
AssemblyNext ==
  \/ StartNewDelivery
  \/ \E p \in PropertyValues : SetDeliveryProperties(p)
  \/ \E payload \in Payloads : ReceiveDeliveryContent(payload)
  \/ NewDeliveryComplete
  \/ PollNext("w1")

AssemblySpec == Init /\ [][AssemblyNext]_vars


\* ================================================================== claims
\* What the formulas below read off the logs.
Lanes(s) == s.retry_frames \o s.publish_frames \o s.frames \o s.low_prio_frames
Count(seq, P(_)) == Cardinality({i \in 1..Len(seq) : P(seq[i])})
HasResolver(r, pair) == pair.resolver = Some(r)
PopCount(r) == Count(emitted, LAMBDA p : HasResolver(r, p))
RetryCount(r) == Count(retried, LAMBDA p : HasResolver(r, p))
QueuedCount(r) == Count(Lanes(inner), LAMBDA p : HasResolver(r, p))
HeldCount(r) == Cardinality({p \in held : HasResolver(r, p)})
FailCount(r) == Count(sworn[r], LAMBDA x : x \in Errors)
IsMethodOf(b, pair) == pair.frame.batch = b /\ pair.frame.kind = "Method"
IsLastOf(b, pair) == pair.frame.batch = b /\ pair.frame.idx = Len(pushed[b])
Queue(c) == IF inner.expected_replies[c] = None THEN <<>>
            ELSE inner.expected_replies[c][1]

\* C1 (as claimed): scheduler atomicity.  For every publish batch b, between
\* the pop that returns b's method frame and the pop that returns b's last
\* frame, pop returns only frames of b, whatever push, push_frames, retry and
\* pop calls are interleaved.  (Read generously: a frame of b itself that the
\* caller gave back with retry and pop returned again is not held against it.)
C1_PublishAtomic ==
  \A i, j \in 1..Len(emitted) :
    \A b \in 1..Len(pushed) :
      (i < j /\ IsMethodOf(b, emitted[i]) /\ IsLastOf(b, emitted[j]))
        => \A k \in (i + 1)..(j - 1) : emitted[k].frame.batch = b


\* C2: pop(flow) follows the lane priority.  In every reachable state and for
\* either value of flow, pop returns the head of the retry lane if that lane
\* is non-empty, else the head of publish_frames, else the head of the normal
\* lane, else, only when flow is true, the head of the low-prio lane, and
\* None only when none of these applies.
C2_PopPriority ==
  \A flow \in BOOLEAN :
    Inner_pop(inner, flow).ret =
      (IF inner.retry_frames # <<>> THEN Some(Head(inner.retry_frames))
       ELSE IF inner.publish_frames # <<>> THEN Some(Head(inner.publish_frames))
       ELSE IF inner.frames # <<>> THEN Some(Head(inner.frames))
       ELSE IF flow /\ inner.low_prio_frames # <<>>
         THEN Some(Head(inner.low_prio_frames))
       ELSE None)

\* C2 witness: pops have been served and the retry, publish and normal lanes
\* all hold a frame at once, so that the priority decides.
C2_Witness ==
  /\ emitted # <<>>
  /\ inner.retry_frames # <<>>
  /\ inner.publish_frames # <<>>
  /\ inner.frames # <<>>

\* C3: flow control.  pop(false) leaves the low-prio lane as it is and
\* returns the head of the first non-empty lane among retry, publish_frames
\* and normal (None only when all three are empty); and once a publish's
\* method frame has been popped, none of its header and body frames is left in
\* the low-prio lane, so pop(false) still emits them.
C3_FlowStallsLowPrio ==
  /\ LET r == Inner_pop(inner, FALSE)
         front == inner.retry_frames \o inner.publish_frames \o inner.frames
     IN /\ r.inner.low_prio_frames = inner.low_prio_frames
        /\ r.ret = IF front = <<>> THEN None ELSE Some(Head(front))
  /\ \A b \in 1..Len(pushed) :
       (\E i \in 1..Len(emitted) : IsMethodOf(b, emitted[i]))
         => \A k \in 1..Len(inner.low_prio_frames) :
              inner.low_prio_frames[k].frame.batch = b
                => inner.low_prio_frames[k].frame.kind = "Method"

\* C3 witness: a publish's method frame was the last frame popped, its header
\* waits in publish_frames, other frames wait in the low-prio lane, and
\* pop(false) returns the header.
C3_Witness ==
  /\ emitted # <<>>
  /\ emitted[Len(emitted)].frame.kind = "Method"
  /\ emitted[Len(emitted)].frame.batch # 0
  /\ inner.low_prio_frames # <<>>
  /\ Inner_pop(inner, FALSE).ret # None
  /\ Inner_pop(inner, FALSE).ret[1].frame.kind = "Header"
  /\ Inner_pop(inner, FALSE).ret[1].frame.batch = emitted[Len(emitted)].frame.batch

\* C4 (as claimed): every resolver is returned by exactly one pop or failed
\* by exactly one drop_pending, never both: over a whole run a resolver is
\* popped or failed at most once in total.
C4_Original ==
  \A r \in ResolverIds : PopCount(r) + FailCount(r) <= 1

\* C4 (amended): every resolver attached to a frame is at any time in exactly
\* one place: queued once in one lane, held by the caller that pop returned
\* it to, or failed by drop_pending.  It is failed at most once (a second
\* drop_pending fails nothing again), it is returned by pop at most once per
\* time it was enqueued (once, plus once per retry of it), and one that was
\* never given back with retry is popped or failed at most once in total.
C4_ResolverDisposedOnce ==
  \A r \in ResolverIds :
    /\ FailCount(r) <= 1
    /\ PopCount(r) <= 1 + RetryCount(r)
    /\ RetryCount(r) = 0 => PopCount(r) + FailCount(r) <= 1
    /\ (QueuedCount(r) + HeldCount(r) + FailCount(r) # 0)
         => QueuedCount(r) + HeldCount(r) + FailCount(r) = 1
    /\ FailCount(r) = 1 => PopCount(r) = RetryCount(r)

\* C4 witness: one resolver was popped, given back with retry and then failed
\* by drop_pending, while another one is held by the caller that popped it.
C4_Witness ==
  \E r, q \in ResolverIds :
    /\ PopCount(r) = 1 /\ RetryCount(r) = 1 /\ FailCount(r) = 1
    /\ HeldCount(q) = 1


\* C5: push_frames appends the whole batch to the back of the low-prio lane
\* in order, the batch's one resolver attached to the last frame and no other
\* frame carrying one, and touches no other lane; the resolver of an empty
\* batch is sworn Ok at once and nothing is enqueued, that of a non-empty
\* batch is not sworn by push_frames.  Hence a resolver travels only with the
\* last frame of its batch, and only resolvers of empty batches are sworn Ok
\* without their frame having been popped.
C5_PushFramesStep ==
  (Len(pushed') = Len(pushed) + 1) =>
    LET fs == pushed'[Len(pushed')]
        r == nRes + 1
        old == inner.low_prio_frames
        new == inner'.low_prio_frames
    IN /\ Len(new) = Len(old) + Len(fs)
       /\ SubSeq(new, 1, Len(old)) = old
       /\ \A i \in 1..Len(fs) :
            new[Len(old) + i] = Pair(fs[i], IF i = Len(fs) THEN Some(r) ELSE None)
       /\ inner'.retry_frames = inner.retry_frames
       /\ inner'.publish_frames = inner.publish_frames
       /\ inner'.frames = inner.frames
       /\ inner'.expected_replies = inner.expected_replies
       /\ sworn[r] = <<>>
       /\ sworn' = [sworn EXCEPT ![r] = IF fs = <<>> THEN <<"Ok">> ELSE <<>>]

C5_ResolverOnLast ==
  /\ \A b \in 1..Len(pushed) :
       \A p \in {Lanes(inner)[i] : i \in 1..Len(Lanes(inner))}
                  \cup held \cup {emitted[i] : i \in 1..Len(emitted)} :
         p.frame.batch = b => (p.resolver # None <=> IsLastOf(b, p))
  /\ \A r \in ResolverIds :
       (\E i \in 1..Len(sworn[r]) : sworn[r][i] = "Ok")
         => /\ sworn[r] = <<"Ok">>
            /\ QueuedCount(r) + HeldCount(r) + PopCount(r) = 0

C5_PushFrames == [][C5_PushFramesStep]_fvars /\ []C5_ResolverOnLast

\* C5 witness: an empty batch was pushed and its resolver sworn Ok, and the
\* last frame of a batch with a body frame was popped with the batch's
\* resolver while the frames before it were popped without one.
C5_Witness ==
  /\ \E b \in 1..Len(pushed) : pushed[b] = <<>>
  /\ \E r \in ResolverIds : sworn[r] = <<"Ok">>
  /\ \E b \in 1..Len(pushed), i \in 1..Len(emitted) :
       /\ Len(pushed[b]) = 3
       /\ IsLastOf(b, emitted[i]) /\ emitted[i].resolver # None
       /\ \E k \in 1..(i - 1) : IsMethodOf(b, emitted[k]) /\ emitted[k].resolver = None

\* C6: drop_pending(error) fails with error the resolver of every frame in
\* each of the four lanes, and no other resolver, and cancels with error
\* every expected reply of every channel, each channel's in order; afterwards
\* the four lanes are empty, the expected-reply map has no entry,
\* has_pending() is false and next_expected_reply is None for every channel.
C6_DropPendingStep ==
  \A e \in Errors :
    DropPending(e) =>
      /\ \A r \in ResolverIds :
           sworn'[r] = IF QueuedCount(r) > 0 THEN Append(sworn[r], e) ELSE sworn[r]
      /\ \A c \in FChannels :
           cancelled'[c] =
             cancelled[c] \o [i \in 1..Len(Queue(c)) |-> <<Queue(c)[i], e>>]
      /\ inner'.retry_frames = <<>>
      /\ inner'.publish_frames = <<>>
      /\ inner'.frames = <<>>
      /\ inner'.low_prio_frames = <<>>
      /\ \A c \in FChannels : inner'.expected_replies[c] = None
      /\ ~Inner_has_pending(inner')
      /\ \A c \in FChannels : Frames_next_expected_reply(inner', c).ret = None

C6_DropPending == [][C6_DropPendingStep]_fvars

\* C6 witness: after a drop_pending that found frames in the retry lane and
\* in another lane and expected replies on both channels: two resolvers
\* failed, one of them given back with retry before, and both channels have
\* cancelled replies.
C6_Witness ==
  /\ inner = InnerDefault
  /\ \E r, q \in ResolverIds :
       r # q /\ FailCount(r) = 1 /\ FailCount(q) = 1 /\ RetryCount(r) = 1
  /\ \A c \in FChannels : cancelled[c] # <<>>

\* C7: expected replies are FIFO per channel.  For every channel c the
\* replies next_expected_reply(c) returned are replies registered for c, in
\* registration order and each once; what is still queued for c is the tail
\* of what was registered for c; every reply registered for c was returned,
\* cancelled or is still queued; and next_expected_reply(c) returns the oldest
\* queued reply of c, or None when c has none left.
C7_RepliesFifo ==
  \A c \in FChannels :
    LET reg == registered[c]
        ret == returned[c]
        q == Queue(c)
    IN /\ \A i \in 1..Len(ret) :
            /\ ret[i].ch = c
            /\ ret[i].n \in 1..Len(reg)
            /\ reg[ret[i].n] = ret[i]
       /\ \A i, j \in 1..Len(ret) : i < j => ret[i].n < ret[j].n
       /\ q = SubSeq(reg, Len(reg) - Len(q) + 1, Len(reg))
       /\ Len(ret) + Len(cancelled[c]) + Len(q) = Len(reg)
       /\ Frames_next_expected_reply(inner, c).ret =
            (IF q = <<>> THEN None ELSE Some(q[1]))

\* C7 witness: two replies registered for channel 1 were returned for it, in
\* order, after a reply for channel 2 was registered and returned in between.
C7_Witness ==
  /\ Len(returned[1]) = 2
  /\ Len(returned[2]) = 1
  /\ Queue(1) = <<>> /\ Queue(2) = <<>>

\* ---------------------------------------------------------------- api claims
\* The server's replies to the client's requests, and the Answer variant each
\* one answers.
ReplyNames ==
  {"channel.open-ok", "channel.flow-ok", "channel.close-ok", "queue.declare-ok",
   "queue.bind-ok", "queue.purge-ok", "queue.delete-ok", "queue.unbind-ok",
   "basic.qos-ok", "basic.consume-ok", "basic.cancel-ok", "basic.get-ok",
   "basic.get-empty", "basic.recover-ok"}
\* The reply of that name, with the fields its handler reads.
ReplyMethod(name, active, queue, tag) ==
  InMethod(name,
    CASE name = "channel.flow-ok" -> <<active>>
      [] name = "queue.declare-ok" -> <<queue, 1, 1>>
      [] name \in {"basic.consume-ok", "basic.cancel-ok"} -> <<tag>>
      [] OTHER -> <<>>)
\* Every reply the server can send.
ForAllReplies(P(_)) ==
  \A n \in ReplyNames, a \in BOOLEAN, q \in QueueNames, t \in ConsumerTags :
    P(ReplyMethod(n, a, q, t))
AnswerOf(name) ==
  CASE name = "channel.open-ok" -> "AwaitingChannelOpenOk"
    [] name = "channel.flow-ok" -> "AwaitingChannelFlowOk"
    [] name = "channel.close-ok" -> "AwaitingChannelCloseOk"
    [] name = "queue.declare-ok" -> "AwaitingQueueDeclareOk"
    [] name = "queue.bind-ok" -> "AwaitingQueueBindOk"
    [] name = "queue.purge-ok" -> "AwaitingQueuePurgeOk"
    [] name = "queue.delete-ok" -> "AwaitingQueueDeleteOk"
    [] name = "queue.unbind-ok" -> "AwaitingQueueUnbindOk"
    [] name = "basic.qos-ok" -> "AwaitingBasicQosOk"
    [] name = "basic.consume-ok" -> "AwaitingBasicConsumeOk"
    [] name = "basic.cancel-ok" -> "AwaitingBasicCancelOk"
    [] name = "basic.get-ok" -> "AwaitingBasicGetAnswer"
    [] name = "basic.get-empty" -> "AwaitingBasicGetAnswer"
    [] name = "basic.recover-ok" -> "AwaitingBasicRecoverOk"
\* The reply m arriving on channel c of the connection.
Reply(c, m) == receive_method(conn, c, m, TRUE, "q1")
Awaiting(cn, c) == Chan(cn, c).awaiting
HeadIs(c, kind) == Awaiting(conn, c) # <<>> /\ Head(Awaiting(conn, c)).kind = kind

\* C8 (as claimed): on a Connected channel with requests outstanding, the
\* reply that answers the head of awaiting is handled with Ok, removes exactly
\* that head, leaving the Answers behind it queued in order, and does not put
\* the channel in Error; so n requests answered in order all return Ok.
\* Stated for the replies to the requests a Connected channel accepts: every
\* reply but channel.open-ok.
C8_ReplyRemovesHead ==
  \A c \in AChannels : ForAllReplies(LAMBDA m :
    (/\ m.name # "channel.open-ok"
     /\ is_connected(conn, c)
     /\ HeadIs(c, AnswerOf(m.name)))
      => LET r == Reply(c, m)
         IN /\ IsOk(r.ret)
            /\ Awaiting(r.conn, c) = Tail(Awaiting(conn, c))
            /\ Chan(r.conn, c).state # StateError)

\* What the handler of reply m returns when the reply answers nothing: every
\* handler but channel.open-ok's matches the head of awaiting and reports a
\* mismatch; channel.open-ok's first requires the Initial state.
MismatchError(m) ==
  IF m.name = "channel.open-ok" THEN Err("InvalidState") ELSE Err("UnexpectedAnswer")
Unanswered(c, m) == is_connected(conn, c) /\ ~HeadIs(c, AnswerOf(m.name))

\* C9 (as claimed): a reply arriving on a Connected channel whose awaiting is
\* empty or whose head is another variant returns UnexpectedAnswer and the
\* channel becomes Error.
C9_Original ==
  \A c \in AChannels : ForAllReplies(LAMBDA m :
    Unanswered(c, m)
      => LET r == Reply(c, m)
         IN r.ret = Err("UnexpectedAnswer") /\ Chan(r.conn, c).state = StateError)

\* C9 (amended): a reply arriving on a Connected channel whose awaiting is
\* empty or whose head is another variant puts the channel in Error and
\* returns an error: UnexpectedAnswer, except for channel.open-ok, whose
\* handler returns InvalidState.
C9_UnexpectedAnswer ==
  \A c \in AChannels : ForAllReplies(LAMBDA m :
    Unanswered(c, m)
      => LET r == Reply(c, m)
         IN r.ret = MismatchError(m) /\ Chan(r.conn, c).state = StateError)

\* C9 witness: a Connected channel awaits queue.declare-ok, basic.qos-ok
\* arrives: UnexpectedAnswer, and the channel is in Error.
C9_Witness ==
  \E c \in AChannels :
    /\ is_connected(conn, c) /\ HeadIs(c, "AwaitingQueueDeclareOk")
    /\ receive_basic_qos_ok(conn, c).ret = Err("UnexpectedAnswer")
    /\ Chan(receive_basic_qos_ok(conn, c).conn, c).state = StateError

\* The operations that require the Connected state, called on channel c with
\* a frame that can be sent.
ConnectedOps(c) ==
  <<queue_declare(conn, c, "q1", TRUE), queue_bind(conn, c, "q1", "x", "k", TRUE),
    queue_purge(conn, c, "q1", TRUE), queue_delete(conn, c, "q1", TRUE),
    queue_unbind(conn, c, "q1", "x", "k", TRUE), basic_qos(conn, c, 1, 2, FALSE, TRUE),
    basic_consume(conn, c, "q1", "t1", TRUE), basic_cancel(conn, c, "t1", TRUE),
    basic_publish(conn, c, "x", "k", TRUE), basic_get(conn, c, "q1", TRUE),
    basic_ack(conn, c, 1, FALSE, TRUE), basic_reject(conn, c, 1, FALSE, TRUE),
    basic_recover_async(conn, c, FALSE, TRUE), basic_recover(conn, c, FALSE, TRUE),
    basic_nack(conn, c, 1, FALSE, FALSE, TRUE),
    channel_flow(conn, c, FALSE, TRUE), channel_close(conn, c, TRUE)>>

\* C10 (as claimed): on an existing channel in any state other than Initial,
\* an operation that requires Connected succeeds when the state is Connected,
\* and otherwise fails with InvalidState and leaves the channel in Error.
C10_RequiresConnected ==
  \A c \in AChannels :
    (contains_key(conn, c) /\ Chan(conn, c).state # Initial)
      => \A i \in DOMAIN ConnectedOps(c) :
           LET r == ConnectedOps(c)[i]
           IN IF Chan(conn, c).state = Connected
                THEN IsOk(r.ret)
                ELSE r.ret = Err("InvalidState") /\ Chan(r.conn, c).state = StateError

\* The operations and handlers that need no Connected channel, and the
\* handlers of the methods the server sends unasked, called on channel c.
OtherOps(c) ==
  <<channel_open(conn, c, TRUE), channel_flow_ok(conn, c, FALSE, TRUE),
    channel_close_ok(conn, c, TRUE), receive_channel_flow(conn, c, FALSE, TRUE),
    receive_channel_close(conn, c, TRUE), receive_basic_amqp_return(conn, c),
    receive_basic_deliver(conn, c, "t1", 1, "q1")>>
Absent(c) == ~contains_key(conn, c)

\* C11: every request operation and every reply handler called with a channel
\* id that is not in the channel map returns InvalidChannel and changes
\* nothing: no frame is sent, no request id is allocated, no Answer is queued
\* and no channel's state changes (the connection is as it was).
C11_InvalidChannel ==
  \A c \in AChannels :
    Absent(c) =>
      /\ \A i \in DOMAIN ConnectedOps(c) :
           ConnectedOps(c)[i] = R(conn, Err("InvalidChannel"))
      /\ \A i \in DOMAIN OtherOps(c) :
           OtherOps(c)[i] = R(conn, Err("InvalidChannel"))
      /\ ForAllReplies(LAMBDA m : Reply(c, m) = R(conn, Err("InvalidChannel")))

\* C11 witness: channel 1 is Connected with a request outstanding, channel 2
\* was never created, and queue_declare and queue.declare-ok on channel 2 are
\* refused with InvalidChannel.
C11_Witness ==
  /\ is_connected(conn, 1) /\ Awaiting(conn, 1) # <<>>
  /\ Absent(2)
  /\ queue_declare(conn, 2, "q1", TRUE).ret = Err("InvalidChannel")
  /\ receive_queue_declare_ok(conn, 2, "q1", 1, 1).ret = Err("InvalidChannel")

\* C12 (as claimed): a server-initiated channel.close received on a Connected
\* channel with k >= 0 Answers pending empties that channel's awaiting queue
\* completely: all k pending requests are failed, not just the head.
C12_CloseDrainsAwaiting ==
  \A c \in AChannels :
    is_connected(conn, c)
      => Awaiting(receive_channel_close(conn, c, TRUE).conn, c) = <<>>

\* C13 (as claimed): on a server-initiated channel.close received on a
\* Connected channel, the client sends a channel.close-ok frame and the
\* channel ends in state Closed with the handler returning Ok; and
\* channel_close_ok is accepted when the channel state is Closed.
C13_CloseOkSent ==
  \A c \in AChannels :
    /\ is_connected(conn, c)
         => LET r == receive_channel_close(conn, c, TRUE)
            IN /\ IsOk(r.ret)
               /\ Chan(r.conn, c).state = Closed
               /\ r.conn.frame_queue
                    = Append(conn.frame_queue, Method(c, "channel.close-ok", <<>>))
    /\ (contains_key(conn, c) /\ Chan(conn, c).state = Closed)
         => IsOk(channel_close_ok(conn, c, TRUE).ret)

\* C14: client-initiated close. channel_close on a Connected channel queues
\* an AwaitingChannelCloseOk Answer, carrying the request id it returns, at
\* the back of awaiting and leaves the state Connected; when channel.close-ok
\* is then received with that Answer at the head of awaiting, the request id
\* is recorded as finished and the channel state becomes Closed.
C14_ClientClose ==
  \A c \in AChannels :
    is_connected(conn, c) =>
      /\ LET r == channel_close(conn, c, TRUE)
         IN /\ IsOk(r.ret)
            /\ Awaiting(r.conn, c)
                 = Append(Awaiting(conn, c), AwaitingChannelCloseOk(r.ret[2]))
            /\ Chan(r.conn, c).state = Connected
      /\ HeadIs(c, "AwaitingChannelCloseOk")
           => LET r == receive_channel_close_ok(conn, c)
              IN /\ IsOk(r.ret)
                 /\ r.conn.finished_reqs
                      = conn.finished_reqs \cup {Head(Awaiting(conn, c)).request_id}
                 /\ Chan(r.conn, c).state = Closed

\* C14 witness: a Connected channel whose channel.close is the request at the
\* head of awaiting and not yet finished; the channel.close-ok closes it.
C14_Witness ==
  \E c \in AChannels :
    /\ is_connected(conn, c) /\ HeadIs(c, "AwaitingChannelCloseOk")
    /\ Head(Awaiting(conn, c)).request_id \notin conn.finished_reqs
    /\ Chan(receive_channel_close_ok(conn, c).conn, c).state = Closed

\* The channel's entry for queue q, an Option.
QueueOf(cn, c, q) == Chan(cn, c).queues[q]
Counts == 0..2

C16_BindingActive ==
  \A c \in AChannels, q \in QueueNames, key \in BindingKeys :
    (/\ is_connected(conn, c)
     /\ HeadIs(c, "AwaitingQueueBindOk")
     /\ Head(Awaiting(conn, c)).args = key
     /\ QueueOf(conn, c, q) # None
     /\ QueueOf(conn, c, q)[1].bindings[key] # None)
      => LET r == receive_queue_bind_ok(conn, c)
         IN /\ IsOk(r.ret)
            /\ QueueOf(r.conn, c, q)[1].bindings[key][1].active = TRUE

\* The prefetch window of the connection and of each of its channels.
ConnPrefetch(cn) == <<cn.prefetch_size, cn.prefetch_count>>
ChanPrefetch(cn) ==
  [c \in {d \in AChannels : contains_key(cn, d)} |->
     <<Chan(cn, c).prefetch_size, Chan(cn, c).prefetch_count>>]

\* C17: when basic.qos-ok matches the head Answer
\* AwaitingBasicQosOk(id, size, count, global): if global is true the
\* connection-level prefetch_size/prefetch_count become (size, count) and the
\* channel-level values are unchanged; if global is false the channel-level
\* values of that channel become (size, count) and the connection-level
\* values, and the other channels', are unchanged.
C17_QosScope ==
  \A c \in AChannels :
    (is_connected(conn, c) /\ HeadIs(c, "AwaitingBasicQosOk"))
      => LET a == Head(Awaiting(conn, c)).args
             r == receive_basic_qos_ok(conn, c)
         IN /\ IsOk(r.ret)
            /\ IF a[3]
                 THEN /\ ConnPrefetch(r.conn) = <<a[1], a[2]>>
                      /\ ChanPrefetch(r.conn) = ChanPrefetch(conn)
                 ELSE /\ ChanPrefetch(r.conn)
                           = [ChanPrefetch(conn) EXCEPT ![c] = <<a[1], a[2]>>]
                      /\ ConnPrefetch(r.conn) = ConnPrefetch(conn)

\* C17 witness: a channel-level basic.qos-ok has set the channel's window
\* (1, 2) and left the connection's at (0, 0); a global basic.qos is now the
\* head of awaiting, and its reply sets the connection's window only.
C17_Witness ==
  \E c \in AChannels :
    /\ is_connected(conn, c) /\ HeadIs(c, "AwaitingBasicQosOk")
    /\ Head(Awaiting(conn, c)).args = <<1, 2, TRUE>>
    /\ ChanPrefetch(conn)[c] = <<1, 2>>
    /\ ConnPrefetch(conn) = <<0, 0>>
    /\ ConnPrefetch(receive_basic_qos_ok(conn, c).conn) = <<1, 2>>

C19_FinishedRecorded ==
  \A c \in AChannels : ForAllReplies(LAMBDA m :
    (/\ contains_key(conn, c)
     /\ HeadIs(c, AnswerOf(m.name))
     /\ IsOk(Reply(c, m).ret))
      => Head(Awaiting(conn, c)).request_id \in Reply(c, m).conn.finished_reqs)

\* -------------------------------------------------------- consumer claims
\* The stream of a consumer without a delegate was polled, the poll returned
\* Pending, and the waker it registered is still registered with nothing
\* queued since.
PolledPending ==
  /\ consumer.delegate = None
  /\ polled = Some(Pending)
  /\ consumer.task # None
  /\ consumer.deliveries = <<>>

\* C20: cancel() on a consumer with no delegate whose stream was polled and
\* returned Pending wakes the registered waker exactly once (and no other
\* waker), and the next poll of the stream, from any task, returns
\* end-of-stream (Ready(None)).
C20_CancelWakesStream ==
  PolledPending
    => LET r == ConsumerInner_cancel(consumer)
       IN /\ r.woken = <<consumer.task[1]>>
          /\ \A w \in Wakers : poll_next(r.inner, w).ret = Ready(None)

\* C20 witness: the run of stream_on_cancel. The stream was polled with waker
\* w1 and returned Pending, the consumer was cancelled, w1 was woken once, and
\* the next poll returned Ready(None), the only item ever received.
C20_Witness ==
  /\ nCalls = 1 /\ nDeliveries = 0
  /\ awoken_count = [w \in Wakers |-> IF w = "w1" THEN 1 ELSE 0]
  /\ polled = Some(Ready(None))
  /\ received = <<None>>
  /\ consumer.deliveries = <<>>

\* C21: set_error(e) on a consumer with no delegate whose stream was polled
\* and returned Pending wakes the registered waker exactly once (and no other
\* waker); the subscriber then observes Err(e) on its next poll and the
\* cancel sentinel (end-of-stream) on the poll after that, in this order.
C21_SetErrorWakesStream ==
  PolledPending
    => \A e \in Errors, w1 \in Wakers, w2 \in Wakers :
         LET r == ConsumerInner_set_error(consumer, e)
             p == poll_next(r.inner, w1)
         IN /\ r.woken = <<consumer.task[1]>>
            /\ p.ret = Ready(Some(Err(e)))
            /\ poll_next(p.inner, w2).ret = Ready(None)

\* C21 witness: the run of stream_on_error, one poll further. The stream was
\* polled with waker w1 and returned Pending, set_error was called, w1 was
\* woken once, and the next two polls returned the error and then
\* end-of-stream.
C21_Witness ==
  /\ nCalls = 1 /\ nDeliveries = 0
  /\ awoken_count = [w \in Wakers |-> IF w = "w1" THEN 1 ELSE 0]
  /\ received = <<Some(Err("E1")), None>>
  /\ polled = Some(Ready(None))
  /\ consumer.deliveries = <<>>

\* Whether the DeliveryResult item carries the completed delivery with that
\* tag.
Carries(item, delivery_tag) ==
  /\ item[1] = "Ok"
  /\ item[2] # None
  /\ item[2][1].delivery_tag = delivery_tag
\* Whether the item a poll returned Ready with is the delivery with that tag.
Received(item, delivery_tag) ==
  /\ item # None
  /\ item[1][1] = "Ok"
  /\ item[1][2].delivery_tag = delivery_tag
\* The number of places the delivery with that tag has reached: the
\* subscriber through a poll, the queue the subscriber pulls from, or the
\* delegate through the executor.
Reached(cs, rec, delivery_tag) ==
  Cardinality({i \in DOMAIN rec : Received(rec[i], delivery_tag)})
  + Cardinality({i \in DOMAIN cs.deliveries : Carries(cs.deliveries[i], delivery_tag)})
  + Cardinality({i \in DOMAIN cs.executor :
                   /\ cs.executor[i][1] = "on_new_delivery"
                   /\ Carries(cs.executor[i][2], delivery_tag)})
DeliveryTags == 1..MaxDeliveries
\* The futures set_delegate spawns for the queued items, oldest first.
HandedOver(queued) == [i \in DOMAIN queued |-> on_new_delivery(queued[i])]

\* C22, at set_delegate: every item queued at that moment is handed to the
\* new delegate in FIFO order, behind what the executor already holds, and
\* the queue is left empty.
C22_DelegateTakesQueue ==
  \A d \in Delegates :
    LET r == set_delegate(consumer, d).inner
    IN /\ r.deliveries = <<>>
       /\ r.executor = consumer.executor \o HandedOver(consumer.deliveries)
       /\ r.delegate = Some(d)

\* C22, at each step: the delivery that new_delivery_complete completes
\* reaches exactly one place, and a delivery that has reached a place is in
\* exactly one place after every later call (never both, never neither).
C22_DeliveryStep ==
  [][\A t \in DeliveryTags :
       /\ (consumer.current_message = Some(Delivery(t)) /\ NewDeliveryComplete)
            => Reached(consumer', received', t) = 1
       /\ Reached(consumer, received, t) = 1
            => Reached(consumer', received', t) = 1
       /\ Reached(consumer', received', t) <= 1]_vars

\* C22: no message is dropped on hand-off to a delegate, under any
\* interleaving of new_delivery_complete, set_delegate and the subscriber's
\* polls.
C22_NoDropOnHandOff == []C22_DelegateTakesQueue /\ C22_DeliveryStep

\* C22 witness: two completed deliveries are queued and no delegate is set, so
\* that installing a delegate here hands both over, in order.
C22_Witness ==
  /\ consumer.delegate = None
  /\ consumer.deliveries = <<Ok(Some(Delivery(1))), Ok(Some(Delivery(2)))>>
  /\ set_delegate(consumer, "d1").inner.executor =
       <<on_new_delivery(Ok(Some(Delivery(1)))),
         on_new_delivery(Ok(Some(Delivery(2))))>>

\* The delivery tags of the deliveries among the items the subscriber received.
ReceivedTags(rec) ==
  LET ds == SelectSeq(rec, LAMBDA x : x # None /\ x[1][1] = "Ok")
  IN [i \in DOMAIN ds |-> ds[i][1][2].delivery_tag]

\* The delivery tags of the deliveries among the queued items.
QueuedTags(queued) ==
  LET ds == SelectSeq(queued, LAMBDA x : x[1] = "Ok" /\ x[2] # None)
  IN [i \in DOMAIN ds |-> ds[i][2][1].delivery_tag]

\* What the subscriber has observed followed by what it will observe.
Observed(cs, rec) == ReceivedTags(rec) \o QueuedTags(cs.deliveries)

\* C23: without a delegate, a completed delivery goes behind everything
\* published before it, and a pull through the stream or the iterator moves
\* the oldest queued delivery to the end of what the subscriber received: the
\* deliveries are observed in publication order, each exactly once.
C23_DeliveryOrder ==
  [][(consumer.delegate = None /\ consumer'.delegate = None) =>
       /\ Observed(consumer', received') =
            IF NewDeliveryComplete /\ consumer.current_message # None
              THEN Append(Observed(consumer, received),
                          consumer.current_message[1].delivery_tag)
              ELSE Observed(consumer, received)
       /\ \/ received' = received
          \/ /\ consumer.deliveries # <<>>
             /\ consumer'.deliveries = Tail(consumer.deliveries)
             /\ ReceivedTags(received') =
                  ReceivedTags(received) \o QueuedTags(<<Head(consumer.deliveries)>>)]_vars

\* C23 witness: the last poll of the stream returned the first delivery and
\* the iterator then returned the second one.
C23_Witness ==
  /\ consumer.delegate = None
  /\ polled = Some(Ready(Some(Ok(Delivery(1)))))
  /\ received = <<Some(Ok(Delivery(1))), Some(Ok(Delivery(2)))>>

\* What a later new_delivery_complete publishes, to the queue or to the
\* delegate, from the consumer state s.
Surfaced(s) ==
  LET r == new_delivery_complete(s).inner
  IN <<SubSeq(r.deliveries, Len(s.deliveries) + 1, Len(r.deliveries)),
       SubSeq(r.executor, Len(s.executor) + 1, Len(r.executor))>>

\* C24: while a delivery is in progress, cancel and set_error discard
\* current_message, so that a later new_delivery_complete hands nothing to
\* the subscriber or the delegate.
C24_NoPartialDelivery ==
  consumer.current_message # None =>
    /\ ConsumerInner_cancel(consumer).inner.current_message = None
    /\ Surfaced(ConsumerInner_cancel(consumer).inner) = <<(<<>>), (<<>>)>>
    /\ \A e \in Errors :
         /\ ConsumerInner_set_error(consumer, e).inner.current_message = None
         /\ Surfaced(ConsumerInner_set_error(consumer, e).inner) = <<(<<>>), (<<>>)>>

\* channel_open on an existing channel: it returns a request id only in
\* Initial, and then the matching Answer is at the back of awaiting and the
\* state is kept; in any other state it returns InvalidState and the channel
\* becomes Error.
C25_ChannelOpen ==
  \A c \in AChannels, sent \in BOOLEAN :
    contains_key(conn, c) =>
      LET r == channel_open(conn, c, sent)
      IN /\ IsOk(r.ret) =>
              /\ Chan(conn, c).state = Initial
              /\ Chan(r.conn, c).state = Initial
              /\ Chan(r.conn, c).awaiting =
                   Append(Chan(conn, c).awaiting, AwaitingChannelOpenOk(r.ret[2]))
         /\ Chan(conn, c).state # Initial =>
              /\ r.ret = Err("InvalidState")
              /\ Chan(r.conn, c).state = StateError
         /\ (Chan(conn, c).state = Initial /\ sent) => IsOk(r.ret)

\* channel.open-ok received in Initial with AwaitingChannelOpenOk at the head
\* of awaiting: the channel becomes Connected.
C25_OpenOk ==
  \A c \in AChannels :
    (/\ contains_key(conn, c)
     /\ Chan(conn, c).state = Initial
     /\ Chan(conn, c).awaiting # <<>>
     /\ Head(Chan(conn, c).awaiting).kind = "AwaitingChannelOpenOk") =>
      /\ receive_channel_open_ok(conn, c).ret = Ok(Unit)
      /\ Chan(receive_channel_open_ok(conn, c).conn, c).state = Connected

\* A step that takes a channel from Initial to Connected is the receipt of
\* channel.open-ok on that channel with AwaitingChannelOpenOk at the head.
C25_OnlyOpenOk ==
  [][\A c \in AChannels :
       (/\ contains_key(conn, c) /\ Chan(conn, c).state = Initial
        /\ contains_key(conn', c) /\ Chan(conn', c).state = Connected) =>
         /\ conn' = receive_channel_open_ok(conn, c).conn
         /\ Chan(conn, c).awaiting # <<>>
         /\ Head(Chan(conn, c).awaiting).kind = "AwaitingChannelOpenOk"]_vars

\* C25: the channel open lifecycle: channel_open needs Initial and queues
\* AwaitingChannelOpenOk, channel.open-ok answering it connects the channel,
\* and nothing else connects a channel.
C25_OpenLifecycle == [](C25_ChannelOpen /\ C25_OpenOk) /\ C25_OnlyOpenOk

\* C25 witness: channel 1 was opened with request 0 and channel.open-ok
\* connected it, and channel 2 is still in Initial.
C25_Witness ==
  /\ contains_key(conn, 1)
  /\ Chan(conn, 1).state = Connected
  /\ 0 \in conn.finished_reqs
  /\ contains_key(conn, 2)
  /\ Chan(conn, 2).state = Initial

\* C26: basic.return received on a Connected channel returns Ok and leaves
\* awaiting, the finished set and the channel state as they were, whatever
\* Answers are pending.
C26_ReturnKeepsAwaiting ==
  \A c \in AChannels :
    is_connected(conn, c) =>
      LET r == receive_basic_amqp_return(conn, c)
      IN /\ r.ret = Ok(Unit)
         /\ Chan(r.conn, c).awaiting = Chan(conn, c).awaiting
         /\ Chan(r.conn, c).state = Connected
         /\ r.conn.finished_reqs = conn.finished_reqs

\* C26 witness: basic.return can arrive on Connected channel 1 while
\* queue.declare-ok and basic.consume-ok are both awaited.
C26_Witness ==
  /\ is_connected(conn, 1)
  /\ Len(Chan(conn, 1).awaiting) = 2
  /\ Chan(conn, 1).awaiting[1].kind = "AwaitingQueueDeclareOk"
  /\ Chan(conn, 1).awaiting[2].kind = "AwaitingBasicConsumeOk"
  /\ receive_basic_amqp_return(conn, 1).conn = conn

\* The two replies to basic.get, received on channel c: get-ok, get-empty.
GetReplies(cn, c) == <<receive_basic_get_ok(cn, c), receive_basic_get_empty(cn, c)>>

\* Whether a basic_get is pending at the head of the channel's awaiting.
GetAtHead(cn, c) ==
  /\ Chan(cn, c).awaiting # <<>>
  /\ Head(Chan(cn, c).awaiting).kind = "AwaitingBasicGetAnswer"

\* C27: on a Connected channel either reply to basic.get, arriving with
\* AwaitingBasicGetAnswer at the head, returns Ok, takes exactly that Answer
\* off awaiting and leaves the channel Connected; either reply arriving
\* after it is answered Ok only if another AwaitingBasicGetAnswer is then at
\* the head, and is an UnexpectedAnswer otherwise.
C27_GetAnswer ==
  \A c \in AChannels, first \in 1..2, second \in 1..2 :
    is_connected(conn, c) =>
      LET r == GetReplies(conn, c)[first]
      IN IF GetAtHead(conn, c)
           THEN /\ r.ret = Ok(Unit)
                /\ Chan(r.conn, c).awaiting = Tail(Chan(conn, c).awaiting)
                /\ is_connected(r.conn, c)
                /\ GetReplies(r.conn, c)[second].ret =
                     IF GetAtHead(r.conn, c) THEN Ok(Unit)
                     ELSE Err("UnexpectedAnswer")
           ELSE r.ret = Err("UnexpectedAnswer")

\* C27 witness: one basic_get is pending on Connected channel 1 and nothing
\* else, so that the first reply is answered and a second one is unexpected.
C27_Witness ==
  /\ is_connected(conn, 1)
  /\ Len(Chan(conn, 1).awaiting) = 1
  /\ GetAtHead(conn, 1)
  /\ receive_basic_get_empty(receive_basic_get_ok(conn, 1).conn, 1).ret =
       Err("UnexpectedAnswer")

\* The queues of channel c whose consumers contain the tag.
QueuesOf(cn, c, consumer_tag) ==
  {q \in QueueNames : /\ Chan(cn, c).queues[q] # None
                      /\ Chan(cn, c).queues[q][1].consumers[consumer_tag] # None}

\* C28: basic.deliver with consumer tag t received on a Connected channel
\* that has a consumer under t leaves the channel in WillReceiveContent(q, t)
\* for the queue q of that consumer, whichever queue the loop visits last,
\* sets that consumer's current_message from the deliver fields, changes no
\* other consumer and leaves awaiting alone.
C28_DeliverSelectsConsumer ==
  \A c \in AChannels, t \in ConsumerTags :
    (is_connected(conn, c) /\ QueuesOf(conn, c, t) # {}) =>
      \A last \in LastQueues(conn, c) :
        LET r == receive_basic_deliver(conn, c, t, 1, last)
            ch == Chan(r.conn, c)
        IN /\ r.ret = Ok(Unit)
           /\ \E q \in QueuesOf(conn, c, t) : ch.state = WillReceiveContent(q, t)
           /\ ch.awaiting = Chan(conn, c).awaiting
           /\ \A q \in QueueNames :
                Chan(conn, c).queues[q] # None =>
                  /\ ch.queues[q] # None
                  /\ \A u \in ConsumerTags :
                       LET before == Chan(conn, c).queues[q][1].consumers[u]
                           after == ch.queues[q][1].consumers[u]
                       IN IF u = t /\ before # None
                            THEN /\ after # None
                                 /\ after[1].current_message = Some([delivery_tag |-> 1])
                            ELSE after = before

\* channel.flow(active) received on a Connected channel: send_flow becomes
\* active, the channel stays Connected and awaiting is as it was; when the
\* frame is handed over, the call returns Ok and channel.flow-ok(active) is
\* the frame sent.
C29_Flow ==
  \A c \in AChannels, active \in BOOLEAN, sent \in BOOLEAN :
    is_connected(conn, c) =>
      LET r == receive_channel_flow(conn, c, active, sent)
      IN /\ Chan(r.conn, c).send_flow = active
         /\ is_connected(r.conn, c)
         /\ Chan(r.conn, c).awaiting = Chan(conn, c).awaiting
         /\ Chan(r.conn, c).receive_flow = Chan(conn, c).receive_flow
         /\ sent =>
              /\ r.ret = Ok(Unit)
              /\ r.conn.frame_queue =
                   Append(conn.frame_queue, Method(c, "channel.flow-ok", <<active>>))

\* channel.flow-ok(active) received on a Connected channel with
\* AwaitingChannelFlowOk at the head of awaiting: receive_flow becomes active.
C29_FlowOk ==
  \A c \in AChannels, active \in BOOLEAN :
    (/\ is_connected(conn, c)
     /\ Chan(conn, c).awaiting # <<>>
     /\ Head(Chan(conn, c).awaiting).kind = "AwaitingChannelFlowOk") =>
      LET r == receive_channel_flow_ok(conn, c, active)
      IN /\ r.ret = Ok(Unit)
         /\ Chan(r.conn, c).receive_flow = active
         /\ Chan(r.conn, c).send_flow = Chan(conn, c).send_flow

\* C29: a server-sent channel.flow is a stall, not an error, and the reply
\* to the client's own channel.flow sets receive_flow.
C29_FlowControl == C29_Flow /\ C29_FlowOk

\* C29 witness: on Connected channel 1 the server's channel.flow(false) was
\* answered with a channel.flow-ok(false) frame while the client's own
\* channel.flow is still awaited.
C29_Witness ==
  /\ is_connected(conn, 1)
  /\ Chan(conn, 1).send_flow = FALSE
  /\ conn.frame_queue # <<>>
  /\ conn.frame_queue[Len(conn.frame_queue)] = Method(1, "channel.flow-ok", <<FALSE>>)
  /\ Chan(conn, 1).awaiting # <<>>
  /\ Head(Chan(conn, 1).awaiting).kind = "AwaitingChannelFlowOk"

\* The consumer state after the items were published from s, in order: with
\* a delegate each is a future spawned on the executor and the queue is as
\* it was, without one each joins the tail of the queue.
Published(s, items) ==
  IF s.delegate # None
    THEN [s EXCEPT !.executor = @ \o [i \in DOMAIN items |-> on_new_delivery(items[i])]]
    ELSE [s EXCEPT !.deliveries = @ \o items]

\* C30: the publish policy.  A completed delivery, the cancel sentinel, and
\* an error followed by the sentinel each go to the delegate alone when one
\* is set and to the tail of the queue alone otherwise; publishing a delivery
\* wakes the registered stream waker, which stays registered, and cancel takes
\* the waker.
C30_PublishPolicy ==
  /\ \A t \in DeliveryTags :
       LET r == ConsumerInner_new_delivery(consumer, Delivery(t))
       IN /\ r.inner = Published(consumer, <<Ok(Some(Delivery(t)))>>)
          /\ r.woken = consumer.task
  /\ LET r == ConsumerInner_cancel(consumer)
     IN /\ r.inner = [Published(consumer, <<Ok(None)>>) EXCEPT !.task = None]
        /\ r.woken = consumer.task
  /\ \A e \in Errors :
       LET r == ConsumerInner_set_error(consumer, e)
       IN /\ r.inner = [Published(consumer, <<Err(e), Ok(None)>>) EXCEPT !.task = None]
          /\ r.woken = consumer.task

\* C30 witness: with a waker registered and a delegate set, a completed
\* delivery went to the delegate, the queue stayed empty and the waker was
\* woken once.
C30_Witness ==
  /\ consumer.delegate # None
  /\ consumer.task = Some("w1")
  /\ consumer.deliveries = <<>>
  /\ consumer.executor = <<on_new_delivery(Ok(Some(Delivery(1))))>>
  /\ awoken_count["w1"] = 1
  /\ received = <<>>

\* C31: drop_prefetched_messages leaves the queue empty, so that a poll right
\* after it returns Pending, spawns the delegate's drop_prefetched_messages
\* once when a delegate is set and nothing otherwise, and keeps
\* current_message, the delegate and the registered waker.
C31_DropPrefetched ==
  LET r == ConsumerInner_drop_prefetched_messages(consumer)
  IN /\ r.inner.deliveries = <<>>
     /\ \A w \in Wakers : poll_next(r.inner, w).ret = Pending
     /\ r.inner.executor =
          IF consumer.delegate # None
            THEN Append(consumer.executor, on_drop_prefetched_messages)
            ELSE consumer.executor
     /\ r.inner.current_message = consumer.current_message
     /\ r.inner.delegate = consumer.delegate
     /\ r.inner.task = consumer.task
     /\ r.woken = <<>>

\* Each drop_prefetched_messages call leaves the queue empty and adds one
\* notification exactly when a delegate is set.
C31_DropStep ==
  [][DropPrefetchedMessages =>
       /\ consumer'.deliveries = <<>>
       /\ Len(consumer'.executor) =
            Len(consumer.executor) + (IF consumer.delegate # None THEN 1 ELSE 0)]_vars

C31_DropPrefetchedMessages == []C31_DropPrefetched /\ C31_DropStep

\* C31 witness: with a waker registered, the prefetched messages were dropped
\* once before and once after a delegate was set: one notification is with
\* the executor and the queue is empty.
C31_Witness ==
  /\ nCalls = 2
  /\ consumer.deliveries = <<>>
  /\ consumer.task # None
  /\ consumer.delegate # None
  /\ consumer.executor = <<on_drop_prefetched_messages>>

\* Whether the consumer states agree on every field but current_message.
SameButMessage(s, r) ==
  /\ r.deliveries = s.deliveries
  /\ r.task = s.task
  /\ r.tag = s.tag
  /\ r.delegate = s.delegate
  /\ r.executor = s.executor

\* new_delivery_complete publishes the message in progress once and takes
\* it, so that a second call right after it publishes nothing.
C32_Complete ==
  LET r == new_delivery_complete(consumer)
  IN /\ r.inner.current_message = None
     /\ r.inner =
          IF consumer.current_message # None
            THEN [Published(consumer, <<Ok(Some(consumer.current_message[1]))>>)
                    EXCEPT !.current_message = None]
            ELSE consumer
     /\ new_delivery_complete(r.inner).inner = r.inner
     /\ new_delivery_complete(r.inner).woken = <<>>

\* set_delivery_properties and receive_delivery_content change only the
\* message in progress, and nothing when there is none.
C32_Setters ==
  \A p \in PropertyValues, payload \in Payloads :
    LET sp == set_delivery_properties(consumer, p)
        rc == receive_delivery_content(consumer, payload)
    IN /\ SameButMessage(consumer, sp.inner) /\ sp.woken = <<>>
       /\ SameButMessage(consumer, rc.inner) /\ rc.woken = <<>>
       /\ IF consumer.current_message = None
            THEN sp.inner = consumer /\ rc.inner = consumer
            ELSE LET m == consumer.current_message[1]
                 IN /\ sp.inner.current_message = Some([m EXCEPT !.properties = p])
                    /\ rc.inner.current_message = Some(receive_content(m, payload))

\* The steps: a completion with nothing in progress, and a setter with
\* nothing in progress, leave the consumer as it was.
C32_IdleStep ==
  [][(consumer.current_message = None /\ ~StartNewDelivery /\ ~PollNext("w1"))
       => consumer' = consumer]_vars

\* C32: new_delivery_complete takes the message in progress and publishes it
\* exactly once; the setters touch only current_message and do nothing when
\* no delivery is in progress.
C32_TakeAndPublish == [](C32_Complete /\ C32_Setters) /\ C32_IdleStep

\* C32 witness: the first delivery was assembled with properties and content
\* and completed: it is queued once and no delivery is in progress.
C32_Witness ==
  /\ consumer.current_message = None
  /\ consumer.deliveries =
       <<Ok(Some([delivery_tag |-> 1, properties |-> 1, data |-> <<"a">>]))>>
  /\ received = <<>>

\* The frames of the pairs of a lane or of a log of pops.
FramesOf(pairs) == [i \in DOMAIN pairs |-> pairs[i].frame]
\* The frames that entered through push_frames, among fs.
LowPrioOrigin(fs) == SelectSeq(fs, LAMBDA f : f.batch # 0)
\* The vectors push_frames was called with, one after the other.
PushOrder ==
  LET F[i \in 0..Len(pushed)] == IF i = 0 THEN <<>> ELSE F[i - 1] \o pushed[i]
  IN F[Len(pushed)]
\* The log of pops without the pairs pop had returned before (a pair given
\* back with retry is returned again).
FirstEmitted(log) ==
  LET F[i \in 0..Len(log)] ==
        IF i = 0 THEN <<>>
        ELSE IF \E j \in 1..(i - 1) : log[j] = log[i] THEN F[i - 1]
        ELSE Append(F[i - 1], log[i])
  IN F[Len(log)]
\* What pop returned followed by what the two lanes still hold.
EmitOrder(log, s) ==
  LowPrioOrigin(FramesOf(log)) \o FramesOf(s.publish_frames)
    \o FramesOf(s.low_prio_frames)

\* C33 (as claimed): absent drop_pending, the low-prio-origin frames pop
\* returned followed by those queued in publish_frames and the low-prio lane
\* always equal the push order.
C33_Original ==
  [][(EmitOrder(emitted, inner) = PushOrder /\ ~DropPending("E1"))
       => EmitOrder(emitted', inner') = PushOrder']_vars

\* C33: absent drop_pending, the low-prio-origin frames in the order pop
\* first returned them, followed by those queued in publish_frames and the
\* low-prio lane, always equal the push order: the migration to
\* publish_frames loses, duplicates and reorders nothing.
C33_PushOrderKept ==
  [][(EmitOrder(FirstEmitted(emitted), inner) = PushOrder /\ ~DropPending("E1"))
       => EmitOrder(FirstEmitted(emitted'), inner') = PushOrder']_vars

\* C33 witness: every frame of a publish with a body was popped once, in
\* push order, after its header and body had migrated.
C33_Witness ==
  /\ pushed # <<>>
  /\ Len(pushed[1]) = MaxBody + 2
  /\ inner.publish_frames = <<>>
  /\ inner.low_prio_frames = <<>>
  /\ sworn = [r \in ResolverIds |-> <<>>]
  /\ LowPrioOrigin(FramesOf(emitted)) = PushOrder

\* The frames the four lanes hold.
QueuedFrames(s) ==
  Len(s.retry_frames) + Len(s.publish_frames) + Len(s.frames) + Len(s.low_prio_frames)

\* pop(true) repeated from s, at most `calls` times, until it returns None:
\* the lanes left, the number of frames returned and whether None was met.
RECURSIVE Drain(_, _)
Drain(s, calls) ==
  IF calls = 0 THEN [inner |-> s, frames |-> 0, ended |-> FALSE]
  ELSE LET r == Inner_pop(s, TRUE)
       IN IF r.ret = None THEN [inner |-> s, frames |-> 0, ended |-> TRUE]
          ELSE LET d == Drain(r.inner, calls - 1)
               IN [d EXCEPT !.frames = @ + 1]

\* C34: from every reachable queue state holding N frames, pop(true) repeated
\* with nothing enqueued in between returns a frame N times and None on call
\* N + 1, has_pending() is then false, and has_pending() is true exactly
\* when a lane holds a frame, whatever expected replies are pending.
C34_DrainTerminates ==
  LET N == QueuedFrames(inner)
      d == Drain(inner, N + 1)
  IN /\ d.ended
     /\ d.frames = N
     /\ ~Inner_has_pending(d.inner)
     /\ QueuedFrames(d.inner) = 0
     /\ d.inner.expected_replies = inner.expected_replies
     /\ Inner_has_pending(inner) <=> N > 0

\* C34 witness: a frame was given back with retry, a publish waits in the
\* low-prio lane with its header still to migrate, and a reply is expected.
C34_Witness ==
  /\ inner.retry_frames # <<>>
  /\ Len(inner.low_prio_frames) >= 2
  /\ is_header(inner.low_prio_frames[2].frame)
  /\ \E c \in FChannels :
       inner.expected_replies[c] # None /\ inner.expected_replies[c][1] # <<>>
  /\ Drain(inner, QueuedFrames(inner) + 1).frames >= 3

\* How often the reply was returned by next_expected_reply, was cancelled,
\* and is queued, over all channels.
ReturnedCount(reply) ==
  Cardinality({<<c, i>> \in FChannels \X (1..MaxEnqueue) :
                 i <= Len(returned[c]) /\ returned[c][i] = reply})
CancelledCount(reply) ==
  Cardinality({<<c, i>> \in FChannels \X (1..MaxEnqueue) :
                 i <= Len(cancelled[c]) /\ cancelled[c][i][1] = reply})
ExpectedCount(reply) ==
  Cardinality({<<c, i>> \in FChannels \X (1..MaxEnqueue) :
                 i <= Len(Queue(c)) /\ Queue(c)[i] = reply})

\* C35: every expected reply push registered is at any time in exactly one
\* place: still queued, returned by one next_expected_reply, or cancelled by
\* one clear_expected_replies or drop_pending; none is returned twice,
\* cancelled twice, or both returned and cancelled.
C35_ReplyDisposedOnce ==
  \A c \in FChannels : \A i \in 1..Len(registered[c]) :
    LET reply == registered[c][i]
    IN /\ ReturnedCount(reply) + CancelledCount(reply) <= 1
       /\ ReturnedCount(reply) + CancelledCount(reply) + ExpectedCount(reply) = 1

\* C35 witness: of three registered replies one was returned, one was
\* cancelled for its channel and nothing is left queued.
C35_Witness ==
  /\ Len(registered[1]) + Len(registered[2]) = 3
  /\ \E c \in FChannels : returned[c] # <<>> /\ cancelled[c] # <<>>
  /\ \A c \in FChannels : Queue(c) = <<>>

\* C36: clear_expected_replies(c, error) cancels with error the expected
\* replies of channel c, oldest first, and leaves c without any; the
\* expected replies of every other channel and the four lanes are as before,
\* nothing is sworn, and with no reply expected for c nothing is cancelled.
C36_ClearStep ==
  \A c \in FChannels, e \in Errors :
    ClearExpectedReplies(c, e) =>
      /\ cancelled'[c] = cancelled[c] \o [i \in 1..Len(Queue(c)) |-> <<Queue(c)[i], e>>]
      /\ \A d \in FChannels \ {c} :
           /\ cancelled'[d] = cancelled[d]
           /\ inner'.expected_replies[d] = inner.expected_replies[d]
      /\ Frames_next_expected_reply(inner', c).ret = None
      /\ inner'.retry_frames = inner.retry_frames
      /\ inner'.publish_frames = inner.publish_frames
      /\ inner'.frames = inner.frames
      /\ inner'.low_prio_frames = inner.low_prio_frames
      /\ sworn' = sworn
      /\ Queue(c) = <<>> => cancelled' = cancelled

C36_ClearExpectedReplies == [][C36_ClearStep]_vars

\* C36 witness: the two replies expected for channel 1 were cancelled with
\* one error while a reply for channel 2 stays expected and its frame queued.
C36_Witness ==
  /\ Len(cancelled[1]) = 2
  /\ cancelled[1][1][2] = cancelled[1][2][2]
  /\ cancelled[1][1][1].n < cancelled[1][2][1].n
  /\ Queue(1) = <<>>
  /\ Queue(2) # <<>>
  /\ inner.frames # <<>>

\* A method the client should not receive, as receive_method sees it.
Unhandled == InMethod("channel.open", <<>>)

\* On a channel in Error every request operation, every reply and every
\* other inbound method returns an error and leaves the connection as it
\* was: the channel's state and awaiting, and the frames sent.
C37_ErrorAbsorbs ==
  \A c \in AChannels :
    (contains_key(conn, c) /\ Chan(conn, c).state = StateError) =>
      /\ LET ops == ConnectedOps(c) \o OtherOps(c)
         IN  \A i \in DOMAIN ops : ~IsOk(ops[i].ret) /\ ops[i].conn = conn
      /\ ForAllReplies(LAMBDA m : ~IsOk(Reply(c, m).ret) /\ Reply(c, m).conn = conn)
      /\ receive_method(conn, c, Unhandled, TRUE, "q1") = R(conn, Err("InvalidState"))

\* The steps of a channel: Error is left by none, Initial is entered only
\* by a channel being created, and Connected is entered only from Initial.
C37_StateStep ==
  [][\A c \in AChannels :
       contains_key(conn, c) =>
         /\ contains_key(conn', c)
         /\ Chan(conn, c).state = StateError => Chan(conn', c) = Chan(conn, c)
         /\ Chan(conn', c).state = Initial => Chan(conn, c).state = Initial
         /\ Chan(conn', c).state = Connected
              => Chan(conn, c).state \in {Initial, Connected}]_vars

FailedOps(c) ==
  <<queue_declare(conn, c, "q1", FALSE), queue_declare(conn, c, "q2", FALSE),
    queue_bind(conn, c, "q1", "x", "k", FALSE), queue_bind(conn, c, "q2", "x", "k", FALSE),
    queue_purge(conn, c, "q1", FALSE), queue_delete(conn, c, "q1", FALSE),
    queue_unbind(conn, c, "q1", "x", "k", FALSE), basic_qos(conn, c, 1, 2, FALSE, FALSE),
    basic_consume(conn, c, "q1", "t1", FALSE), basic_cancel(conn, c, "t1", FALSE),
    basic_publish(conn, c, "x", "k", FALSE), basic_get(conn, c, "q1", FALSE),
    basic_ack(conn, c, 1, FALSE, FALSE), basic_reject(conn, c, 1, FALSE, FALSE),
    basic_recover_async(conn, c, FALSE, FALSE), basic_recover(conn, c, FALSE, FALSE),
    basic_nack(conn, c, 1, FALSE, FALSE, FALSE),
    channel_flow(conn, c, FALSE, FALSE), channel_close(conn, c, FALSE),
    channel_flow_ok(conn, c, FALSE, FALSE), channel_close_ok(conn, c, FALSE),
    channel_open(conn, c, FALSE)>>

\* The request ids of the Answers awaited on any channel of cn.
AwaitedIds(cn) ==
  {Awaiting(cn, c)[k].request_id :
     <<c, k>> \in {p \in AChannels \X (1 .. MaxFrames + 1) :
                     contains_key(cn, p[1]) /\ p[2] <= Len(Awaiting(cn, p[1]))}}

\* A request operation reaches the send exactly on a channel in the state it
\* requires, and one whose send fails returns the connection as it was.
C38_SendFailure ==
  \A c \in AChannels :
    contains_key(conn, c) =>
      LET ops == FailedOps(c) IN
      /\ \A i \in DOMAIN ops : ops[i].ret = Err("SendError") => ops[i].conn = conn
      /\ Chan(conn, c).state = Connected
           => \A i \in 1 .. Len(ops) - 1 : ops[i].ret = Err("SendError")
      /\ Chan(conn, c).state = Initial => ops[Len(ops)].ret = Err("SendError")

\* Finished ids and awaited ids are ids already allocated, and no finished id
\* is still awaited.
C38_Finished ==
  /\ conn.finished_reqs \cup AwaitedIds(conn) \subseteq 0 .. conn.request_id - 1
  /\ conn.finished_reqs \cap AwaitedIds(conn) = {}

\* An id is allocated only in a step that sends a frame and awaits the id,
\* and an id joins the finished set only from awaiting.
C38_IdStep ==
  [][/\ conn'.request_id # conn.request_id
         => /\ conn'.request_id = conn.request_id + 1
            /\ Len(conn'.frame_queue) = Len(conn.frame_queue) + 1
            /\ conn.request_id \in AwaitedIds(conn')
     /\ conn'.finished_reqs \ conn.finished_reqs \subseteq AwaitedIds(conn)]_vars

\* C38: a request operation whose frame cannot be sent leaves the connection
\* unchanged, so finished ids are ids returned by a successful request
\* operation and never ids of an Answer still in awaiting.
C38_FailedSendUnchanged == [](C38_SendFailure /\ C38_Finished) /\ C38_IdStep

\* C38 witness: channel 1 is Connected with one request finished and another
\* awaited, no queue q2, and a queue_declare of q2 fails to send.
C38_Witness ==
  /\ contains_key(conn, 1)
  /\ Chan(conn, 1).state = Connected
  /\ conn.finished_reqs # {}
  /\ Len(Awaiting(conn, 1)) >= 1
  /\ Chan(conn, 1).queues["q2"] = None
  /\ queue_declare(conn, 1, "q2", FALSE) = R(conn, Err("SendError"))

\* The items a consumer publishes.
DeliveryResults ==
  {Ok(Some(Delivery(t))) : t \in 1 .. MaxDeliveries} \cup {Ok(None)} \cup {Err(e) : e \in Errors}

\* The channel always counts the receiver kept in deliveries_out, so a send
\* of any item succeeds and appends it, and without a delegate new_delivery,
\* cancel and set_error leave their items at the back of the queue.
C39_SendSucceeds ==
  /\ consumer.receivers >= 1
  /\ \A item \in DeliveryResults :
       /\ send(consumer, item).ret = Ok(Unit)
       /\ send(consumer, item).inner.deliveries = Append(consumer.deliveries, item)
  /\ consumer.delegate = None =>
       /\ ConsumerInner_new_delivery(consumer, Delivery(1)).inner.deliveries
            = Append(consumer.deliveries, Ok(Some(Delivery(1))))
       /\ ConsumerInner_cancel(consumer).inner.deliveries
            = Append(consumer.deliveries, Ok(None))
       /\ \A e \in Errors :
            ConsumerInner_set_error(consumer, e).inner.deliveries
              = consumer.deliveries \o <<Err(e), Ok(None)>>

\* While no iterator is held, a step only adds to the back of the queue.
C39_Accumulates ==
  [][(Iterators(consumer) = 0 /\ Iterators(consumer') = 0)
       => /\ Len(consumer'.deliveries) >= Len(consumer.deliveries)
          /\ SubSeq(consumer'.deliveries, 1, Len(consumer.deliveries))
               = consumer.deliveries]_vars

\* C39: the consumer's enqueue never fails, in every state and after every
\* iterator handed to subscribers has been dropped, and what is published
\* then accumulates in the queue.
C39_EnqueueNeverFails == []C39_SendSucceeds /\ C39_Accumulates

\* C39 witness: an iterator was made, took one item and was dropped; no
\* iterator is left and published items wait in the queue.
C39_Witness ==
  /\ Iterators(consumer) = 0
  /\ Len(received) = 1
  /\ Len(consumer.deliveries) >= 2
  /\ consumer.delegate = None

\* C40 (as claimed): every waker registered by a poll that returned Pending
\* is woken by the next item enqueued, so that no task is parked while an
\* item waits in the queue.
C40_NoLostWakeup ==
  (consumer.delegate = None /\ consumer.deliveries # <<>>) => subscriber.parked = {}

\* After a poll that returned Pending and before the next item, the waker
\* of that poll is the registered one; the step that enqueues the next item
\* wakes it.
C40_WakeStep ==
  [][(consumer.delegate = None /\ polled = Some(Pending) /\ polled' = polled
        /\ subscriber.last # None /\ subscriber.last[1] \in subscriber.parked
        /\ Len(consumer'.deliveries) > Len(consumer.deliveries))
       => /\ consumer.task = subscriber.last
          /\ awoken_count'[subscriber.last[1]] = awoken_count[subscriber.last[1]] + 1
          /\ subscriber.last[1] \notin subscriber'.parked]_vars

\* In no state is the queue non-empty while the last poll returned Pending
\* and its waker was not woken since.
C40_LastPollWoken ==
  (consumer.delegate = None /\ consumer.deliveries # <<>> /\ polled = Some(Pending))
    => subscriber.last[1] \notin subscriber.parked

\* C40: no lost wake-up for the most recent poll.  The waker registered by
\* the last poll_next, if that poll returned Pending, is woken by the next
\* item enqueued; a waker registered by an earlier poll and replaced since is
\* not woken.
C40_LastPollNoLostWakeup == []C40_LastPollWoken /\ C40_WakeStep

\* C40 witness: the stream was polled with w1 and then with w2, both polls
\* returned Pending, and an item was enqueued: w2 was woken, w1 was not and
\* is still parked.
C40_Witness ==
  /\ consumer.delegate = None
  /\ polled = Some(Pending)
  /\ Len(consumer.deliveries) = 1
  /\ subscriber = [last |-> Some("w2"), parked |-> {"w1"}]
  /\ awoken_count = [w \in Wakers |-> IF w = "w2" THEN 1 ELSE 0]

====
